---------------------------- MODULE Spec2Model ----------------------------
(***************************************************************************)
(* Wabbajack library cleaner: the classification and safe-deletion engine. *)
(*                                                                         *)
(*   parser.rs   file-name decomposition, manifest identity sets           *)
(*   scanner.rs  orphan classification, duplicate (old version) grouping   *)
(*   cleaner.rs  deletion batches with backup-or-permanent semantics       *)
(*                                                                         *)
(* File names, ids, versions and timestamps are strings, as in the code;   *)
(* they are taken apart with Len, SubSeq and \o.                           *)
(***************************************************************************)
EXTENDS Integers, Sequences, FiniteSets, TLC

(***************************************************************************)
(* Strings                                                                 *)
(***************************************************************************)

\* The i-th character of s, as a one-character string.
Ch(s, i) == SubSeq(s, i, i)

DigitChars == "0123456789"
UpperChars == "ABCDEFGHIJKLMNOPQRSTUVWXYZ"
LowerChars == "abcdefghijklmnopqrstuvwxyz"

IndexIn(alphabet, c) ==
    IF \E i \in 1..Len(alphabet) : Ch(alphabet, i) = c
    THEN CHOOSE i \in 1..Len(alphabet) : Ch(alphabet, i) = c
    ELSE 0

CharsOf(alphabet) == {Ch(alphabet, i) : i \in 1..Len(alphabet)}
DigitSet == CharsOf(DigitChars)
UpperSet == CharsOf(UpperChars)
LowerSet == CharsOf(LowerChars)

is_ascii_digit(c) == c \in DigitSet
is_alphabetic(c) == c \in UpperSet \/ c \in LowerSet

\* The other printable ASCII characters file names are made of, with their codes.
PunctChars == " !#$%&'()+,-.:;=@[]_{}~"
PunctCodes == <<32, 33, 35, 36, 37, 38, 39, 40, 41, 43, 44, 45, 46, 58, 59, 61, 64,
                91, 93, 95, 123, 125, 126>>

\* The byte value of a character (String's Ord compares bytes).
CharCode(c) ==
    IF IndexIn(DigitChars, c) > 0 THEN 47 + IndexIn(DigitChars, c)
    ELSE IF IndexIn(UpperChars, c) > 0 THEN 64 + IndexIn(UpperChars, c)
    ELSE IF IndexIn(LowerChars, c) > 0 THEN 96 + IndexIn(LowerChars, c)
    ELSE PunctCodes[IndexIn(PunctChars, c)]

LowerChar(c) ==
    IF c \in UpperSet THEN Ch(LowerChars, IndexIn(UpperChars, c)) ELSE c

RECURSIVE to_lowercase(_)
to_lowercase(s) ==
    IF s = "" THEN "" ELSE LowerChar(Ch(s, 1)) \o to_lowercase(SubSeq(s, 2, Len(s)))

\* str::find: the index (from 1) of the first occurrence of pat in s, 0 if none.
Find(s, pat) ==
    LET hits == {i \in 1..(Len(s) - Len(pat) + 1) : SubSeq(s, i, i + Len(pat) - 1) = pat}
    IN  IF hits = {} THEN 0 ELSE CHOOSE i \in hits : \A j \in hits : i <= j

Contains(s, pat) == Find(s, pat) > 0

StartsWith(s, pat) == Len(pat) <= Len(s) /\ SubSeq(s, 1, Len(pat)) = pat

EndsWith(s, pat) ==
    Len(pat) <= Len(s) /\ SubSeq(s, Len(s) - Len(pat) + 1, Len(s)) = pat

\* str::split(sep) for a one-character separator: always at least one piece.
RECURSIVE Split(_, _)
Split(s, sep) ==
    LET i == Find(s, sep)
    IN  IF i = 0 THEN <<s>>
        ELSE <<SubSeq(s, 1, i - 1)>> \o Split(SubSeq(s, i + 1, Len(s)), sep)

\* [String]::join(sep)
RECURSIVE Join(_, _)
Join(parts, sep) ==
    IF Len(parts) = 0 THEN ""
    ELSE IF Len(parts) = 1 THEN parts[1]
    ELSE parts[1] \o sep \o Join(Tail(parts), sep)

\* Ordering::{Less, Equal, Greater} of String::cmp as -1, 0, 1: bytewise
\* lexicographic, a proper prefix being smaller.
RECURSIVE StrCmp(_, _)
StrCmp(a, b) ==
    IF a = "" /\ b = "" THEN 0
    ELSE IF a = "" THEN -1
    ELSE IF b = "" THEN 1
    ELSE IF CharCode(Ch(a, 1)) < CharCode(Ch(b, 1)) THEN -1
    ELSE IF CharCode(Ch(a, 1)) > CharCode(Ch(b, 1)) THEN 1
    ELSE StrCmp(SubSeq(a, 2, Len(a)), SubSeq(b, 2, Len(b)))

\* usize/i64 Display: the decimal digits of n >= 0.
RECURSIVE to_string(_)
to_string(n) ==
    IF n < 10 THEN Ch(DigitChars, n + 1)
    ELSE to_string(n \div 10) \o Ch(DigitChars, (n % 10) + 1)

(***************************************************************************)
(* Decimal strings as numbers.  Timestamps have ten digits or more, which  *)
(* is beyond the model checker's integers, so their numeric value is       *)
(* handled digit by digit.                                                 *)
(***************************************************************************)

AllDigits(s) == \A i \in 1..Len(s) : is_ascii_digit(Ch(s, i))

RECURSIVE StripZeros(_)
StripZeros(s) ==
    IF Len(s) > 1 /\ Ch(s, 1) = "0" THEN StripZeros(SubSeq(s, 2, Len(s))) ELSE s

\* -1, 0, 1 as the number a is below, equal to, above the number b.
NumCmp(a, b) ==
    LET x == StripZeros(a)
        y == StripZeros(b)
    IN  IF Len(x) < Len(y) THEN -1
        ELSE IF Len(x) > Len(y) THEN 1
        ELSE StrCmp(x, y)

PadLeft(s, n) ==
    LET RECURSIVE Zeros(_)
        Zeros(k) == IF k <= 0 THEN "" ELSE "0" \o Zeros(k - 1)
    IN  Zeros(n - Len(s)) \o s

\* a - b as a decimal string, for numbers a >= b (schoolbook subtraction).
NumSub(a, b) ==
    LET n == IF Len(a) > Len(b) THEN Len(a) ELSE Len(b)
        x == PadLeft(a, n)
        y == PadLeft(b, n)
        D(s, i) == IndexIn(DigitChars, Ch(s, i)) - 1
        RECURSIVE Go(_, _)
        \* digits i..1 still to do, borrow carried in
        Go(i, borrow) ==
            IF i = 0 THEN ""
            ELSE LET d == D(x, i) - D(y, i) - borrow
                 IN  IF d < 0 THEN Go(i - 1, 1) \o Ch(DigitChars, d + 11)
                     ELSE Go(i - 1, 0) \o Ch(DigitChars, d + 1)
    IN  StripZeros(Go(n, 0))

NumAbsDiff(a, b) == IF NumCmp(a, b) >= 0 THEN NumSub(a, b) ELSE NumSub(b, a)

I64Max == "9223372036854775807"

\* str::parse::<i64>() succeeds on a digit string iff the value fits.
ParsesAsI64(s) == s /= "" /\ AllDigits(s) /\ NumCmp(s, I64Max) <= 0

\* Option<T>: None is the empty tuple, Some(x) the one-element tuple.
None == <<>>
Some(x) == <<x>>

\* Iterator::sum of the sizes of a sequence of files.
RECURSIVE SumSizes(_)
SumSizes(files) ==
    IF Len(files) = 0 THEN 0 ELSE files[1].size + SumSizes(Tail(files))

(***************************************************************************)
(* parser.rs                                                               *)
(***************************************************************************)

ARCHIVE_EXTENSIONS == <<".7z", ".zip", ".rar", ".tar", ".gz", ".exe">>

\* A test that takes every non-empty string for a number.
is_numeric_of_any_chars(s) == s /= ""

is_numeric(s) ==
    IF s = "" THEN FALSE
    ELSE LET t == IF StartsWith(s, "-") THEN SubSeq(s, 2, Len(s)) ELSE s
         IN  t /= "" /\ AllDigits(t)

is_version_pattern(str) ==
    LET low == to_lowercase(str)
        s == IF StartsWith(low, "v") THEN SubSeq(low, 2, Len(low)) ELSE low
    IN  /\ \A i \in 1..Len(s) :
              is_ascii_digit(Ch(s, i)) \/ Ch(s, i) \in {".", "-", "_"}
        /\ \E i \in 1..Len(s) : is_ascii_digit(Ch(s, i))

normalize_mod_name(mod_name) ==
    LET parts == Split(mod_name, " ")
        \* the parts before the first version pattern
        stops == {i \in 1..Len(parts) : is_version_pattern(parts[i])}
        n == IF stops = {} THEN Len(parts)
             ELSE (CHOOSE i \in stops : \A j \in stops : i <= j) - 1
        clean_parts == SubSeq(parts, 1, n)
    IN  IF Len(clean_parts) = 0 THEN mod_name ELSE Join(clean_parts, " ")

patch_keywords ==
    <<"patch", "hotfix", "update", "fix", "- patch", "-patch", " patch", "- hotfix",
      "-hotfix", " hotfix", "- update", "-update", " update", "- fix", "-fix", " fix">>

is_patch_or_hotfix(filename) ==
    LET lower == to_lowercase(filename)
    IN  \E k \in 1..Len(patch_keywords) : Contains(lower, patch_keywords[k])

full_keywords == <<"main", "full", "complete", "- main", "-main", " main">>

is_full_or_main_file(filename) ==
    LET lower == to_lowercase(filename)
    IN  \E k \in 1..Len(full_keywords) : Contains(lower, full_keywords[k])

\* The largest number the part patterns are tried for.
MaxPartNumber == 20

\* An extraction that tries the textual forms for the smaller numbers first.
extract_part_indicator_ascending(filename) ==
    LET lower == to_lowercase(filename)
        Dashed(i) == "-" \o to_string(i) \o "-"
        Hit1(i) ==
            LET idx == Find(lower, Dashed(i))
                after == idx + Len(Dashed(i))
            IN  /\ idx > 0
                /\ idx > 1 => ~(is_alphabetic(Ch(lower, idx - 1))
                                \/ is_ascii_digit(Ch(lower, idx - 1)))
                /\ after <= Len(lower) => ~is_ascii_digit(Ch(lower, after))
        hits1 == {i \in 1..MaxPartNumber : Hit1(i)}
        Hit2(i) ==
            \/ Contains(lower, "part " \o to_string(i))
            \/ Contains(lower, "part" \o to_string(i))
            \/ Contains(lower, "(part " \o to_string(i) \o ")")
            \/ Contains(lower, "pt" \o to_string(i))
            \/ Contains(lower, "pt " \o to_string(i))
        hits2 == {i \in 1..MaxPartNumber : Hit2(i)}
    IN  IF hits1 /= {}
        THEN Some(Dashed(CHOOSE i \in hits1 : \A j \in hits1 : i <= j))
        ELSE IF hits2 /= {}
        THEN Some(":part" \o to_string(CHOOSE i \in hits2 : \A j \in hits2 : i <= j))
        ELSE None

extract_part_indicator(filename) ==
    LET lower == to_lowercase(filename)
        \* Pattern 1: "-i-", not after a letter or digit, not before a digit
        Dashed(i) == "-" \o to_string(i) \o "-"
        Hit1(i) ==
            LET idx == Find(lower, Dashed(i))
                after == idx + Len(Dashed(i))
            IN  /\ idx > 0
                /\ idx > 1 => ~(is_alphabetic(Ch(lower, idx - 1))
                                \/ is_ascii_digit(Ch(lower, idx - 1)))
                /\ after <= Len(lower) => ~is_ascii_digit(Ch(lower, after))
        hits1 == {i \in 1..MaxPartNumber : Hit1(i)}
        \* Pattern 2: "part i" and its variants, the larger numbers first
        Hit2(i) ==
            \/ Contains(lower, "part " \o to_string(i))
            \/ Contains(lower, "part" \o to_string(i))
            \/ Contains(lower, "(part " \o to_string(i) \o ")")
            \/ Contains(lower, "pt" \o to_string(i))
            \/ Contains(lower, "pt " \o to_string(i))
        hits2 == {i \in 1..MaxPartNumber : Hit2(i)}
    IN  IF hits1 /= {}
        THEN Some(Dashed(CHOOSE i \in hits1 : \A j \in hits1 : i <= j))
        ELSE IF hits2 /= {}
        THEN Some(":part" \o to_string(CHOOSE i \in hits2 : \A j \in hits2 : i >= j))
        ELSE None

has_valid_archive_extension(filename) ==
    LET lower == to_lowercase(filename)
    IN  \E k \in 1..Len(ARCHIVE_EXTENSIONS) : EndsWith(lower, ARCHIVE_EXTENSIONS[k])

is_wabbajack_file(filename) ==
    LET lower == to_lowercase(filename)
    IN  /\ has_valid_archive_extension(filename)
        /\ ~(\/ Contains(lower, ".part")
             \/ Contains(lower, ".tmp")
             \/ Contains(lower, ".download")
             \/ StartsWith(lower, "~"))

\* The shortest timestamp and the lengths of a ModID and of a FileID.
MinTimestampLen == 10
MinModIdLen == 3
MaxModIdLen == 6
MinFileIdLen == 4

\* Option<ModFile>; full_path and size are filled in by the caller.
parse_mod_filename(filename) ==
    LET lower == to_lowercase(filename)
        exts == {k \in 1..Len(ARCHIVE_EXTENSIONS) : EndsWith(lower, ARCHIVE_EXTENSIONS[k])}
    IN  IF exts = {} THEN None
        ELSE
        LET ext == ARCHIVE_EXTENSIONS[CHOOSE k \in exts : \A j \in exts : k <= j]
            name_without_ext == SubSeq(filename, 1, Len(filename) - Len(ext))
            parts == Split(name_without_ext, "-")
            n == Len(parts)
            timestamp == parts[n]
            \* the first ModID candidate among parts[1 .. len-2] (from 0)
            ids == {k \in 2..(n - 1) :
                       /\ is_numeric(parts[k])
                       /\ Len(parts[k]) >= MinModIdLen
                       /\ Len(parts[k]) <= MaxModIdLen}
        IN  IF n < 3 THEN None
            ELSE IF ~is_numeric(timestamp) \/ Len(timestamp) < MinTimestampLen THEN None
            ELSE IF ids = {} THEN None
            ELSE
            LET mod_id_index == CHOOSE k \in ids : \A j \in ids : k <= j
                has_file_id ==
                    /\ mod_id_index + 1 < n
                    /\ is_numeric(parts[mod_id_index + 1])
                    /\ Len(parts[mod_id_index + 1]) >= MinFileIdLen
                version_start == IF has_file_id THEN mod_id_index + 2 ELSE mod_id_index + 1
            IN  Some([file_name |-> filename,
                      full_path |-> "",
                      mod_name  |-> Join(SubSeq(parts, 1, mod_id_index - 1), "-"),
                      mod_id    |-> parts[mod_id_index],
                      file_id   |-> IF has_file_id THEN Some(parts[mod_id_index + 1])
                                    ELSE None,
                      version   |-> Join(SubSeq(parts, version_start, n - 1), "-"),
                      timestamp |-> timestamp,
                      size      |-> 0,
                      is_patch  |-> is_patch_or_hotfix(filename)])

\* One element of the manifest's "Archives": its State's optional ModID and FileID.
Archive(mod_id, file_id) == [ModID |-> mod_id, FileID |-> file_id]

\* Identity sets whose compound keys do not depend on the ModID being positive.
parse_wabbajack_file_any_mod_id(archives) ==
    LET with_mod == {k \in 1..Len(archives) :
                        archives[k].ModID /= None /\ archives[k].ModID[1] > 0}
        with_file == {k \in 1..Len(archives) :
                        /\ archives[k].ModID /= None /\ archives[k].ModID[1] >= 0
                        /\ archives[k].FileID /= None /\ archives[k].FileID[1] > 0}
    IN  [mod_count         |-> Len(archives),
         used_mod_keys     |-> {to_string(archives[k].ModID[1]) : k \in with_mod},
         used_mod_file_ids |-> {to_string(archives[k].ModID[1]) \o "-"
                                    \o to_string(archives[k].FileID[1]) : k \in with_file}]

\* Identity sets in which an archive with a FileID adds its compound key only.
parse_wabbajack_file_pair_without_id(archives) ==
    LET with_mod == {k \in 1..Len(archives) :
                        archives[k].ModID /= None /\ archives[k].ModID[1] > 0}
        with_file == {k \in with_mod :
                        archives[k].FileID /= None /\ archives[k].FileID[1] > 0}
    IN  [mod_count         |-> Len(archives),
         used_mod_keys     |-> {to_string(archives[k].ModID[1]) :
                                    k \in with_mod \ with_file},
         used_mod_file_ids |-> {to_string(archives[k].ModID[1]) \o "-"
                                    \o to_string(archives[k].FileID[1]) : k \in with_file}]

\* The identity sets of a decoded manifest (its archives, in order).
parse_wabbajack_file(archives) ==
    LET with_mod == {k \in 1..Len(archives) :
                        archives[k].ModID /= None /\ archives[k].ModID[1] > 0}
        with_file == {k \in with_mod :
                        archives[k].FileID /= None /\ archives[k].FileID[1] > 0}
    IN  [mod_count         |-> Len(archives),
         used_mod_keys     |-> {to_string(archives[k].ModID[1]) : k \in with_mod},
         used_mod_file_ids |-> {to_string(archives[k].ModID[1]) \o "-"
                                    \o to_string(archives[k].FileID[1]) : k \in with_file}]

(***************************************************************************)
(* scanner.rs: orphan classification                                       *)
(***************************************************************************)

\* The union of the manifests' id-only sets, and of their compound sets.
RECURSIVE CombinedModIds(_)
CombinedModIds(modlists) ==
    IF Len(modlists) = 0 THEN {}
    ELSE modlists[1].used_mod_keys \cup CombinedModIds(Tail(modlists))

RECURSIVE CombinedModFileIds(_)
CombinedModFileIds(modlists) ==
    IF Len(modlists) = 0 THEN {}
    ELSE modlists[1].used_mod_file_ids \cup CombinedModFileIds(Tail(modlists))

\* A classification by the precise match only, without the ModID fallback.
is_used_without_fallback(mod_file, used_mod_ids, used_mod_file_ids) ==
    /\ mod_file.file_id /= None
    /\ (mod_file.mod_id \o "-" \o mod_file.file_id[1]) \in used_mod_file_ids

\* A classification in which a file that carries a FileID is matched by the pair alone.
is_used_pair_when_present(mod_file, used_mod_ids, used_mod_file_ids) ==
    IF mod_file.file_id /= None
    THEN (mod_file.mod_id \o "-" \o mod_file.file_id[1]) \in used_mod_file_ids
    ELSE mod_file.mod_id \in used_mod_ids

\* The closure's is_used: the precise ModID+FileID match, then the ModID fallback.
is_used(mod_file, used_mod_ids, used_mod_file_ids) ==
    LET precise ==
            /\ mod_file.file_id /= None
            /\ (mod_file.mod_id \o "-" \o mod_file.file_id[1]) \in used_mod_file_ids
    IN  precise \/ (~precise /\ mod_file.mod_id \in used_mod_ids)

RECURSIVE OrphanRecords(_)
OrphanRecords(files) ==
    IF Len(files) = 0 THEN <<>>
    ELSE <<[file |-> files[1]]>> \o OrphanRecords(Tail(files))

\* A classification that reports every file as orphaned, the used ones too.
detect_orphaned_mods_all_orphaned(files, modlists) ==
    LET used_mod_ids == CombinedModIds(modlists)
        used_mod_file_ids == CombinedModFileIds(modlists)
        Used(f) == is_used(f, used_mod_ids, used_mod_file_ids)
        used_mods == SelectSeq(files, Used)
    IN  [used_mods     |-> used_mods,
         orphaned_mods |-> OrphanRecords(files),
         used_size     |-> SumSizes(used_mods),
         orphaned_size |-> SumSizes(files)]

detect_orphaned_mods(files, modlists) ==
    LET used_mod_ids == CombinedModIds(modlists)
        used_mod_file_ids == CombinedModFileIds(modlists)
        Used(f) == is_used(f, used_mod_ids, used_mod_file_ids)
        Unused(f) == ~is_used(f, used_mod_ids, used_mod_file_ids)
        used_mods == SelectSeq(files, Used)
        orphaned == SelectSeq(files, Unused)
    IN  [used_mods     |-> used_mods,
         orphaned_mods |-> OrphanRecords(orphaned),
         used_size     |-> SumSizes(used_mods),
         orphaned_size |-> SumSizes(orphaned)]

(***************************************************************************)
(* The folders scanned for old versions                                    *)
(***************************************************************************)

FolderPath == "downloads"

Entry(name, size) == [name |-> name, size |-> size, is_dir |-> FALSE]
DirEntry(name) == [name |-> name, size |-> 0, is_dir |-> TRUE]

\* Folders of one mod in several uploads: timestamps of ten and of eleven
\* digits; a second mod with two uploads of one timestamp; a text file.
UploadsPool ==
    { Entry("Mod-1000-1-0-1500000000.7z", 1000),
      Entry("Mod-1000-1-1-1600000000.7z", 1000),
      Entry("Mod-1000-1-2-9999999999.7z", 1000),
      Entry("Mod-1000-1-3-10000000000.7z", 1300),
      Entry("Same-1002-1-0-1600000000.7z", 400),
      Entry("Same-1002-1-1-1600000000.zip", 400),
      Entry("notes.txt", 10) }

\* Folders of main files, patches and hotfixes of one mod; a second mod; the
\* backup directory.
PatchPool ==
    { Entry("Mod-1000-1-0-1500000000.7z", 1000),
      Entry("Mod-1000-main-1550000000.7z", 1000),
      Entry("Mod-1000-1-1-hotfix-1600000000.7z", 900),
      Entry("Mod-1000-1-2-hotfix-1700000000.7z", 50),
      Entry("Mod-1000-1-3-hotfix-1800000000.7z", 100),
      Entry("Other-1001-1-0-1600000000.7z", 500),
      Entry("Other-1001-1-1-1700000000.7z", 700),
      DirEntry("WLC_Backup") }

\* Folders of variants of one mod: one version twice, sizes far apart, an
\* empty file, body-type and texture descriptors in either case.
VariantsPool ==
    { Entry("Mod-1000-1-0-1500000000.7z", 1000),
      Entry("Mod-1000-1-0-1500000100.7z", 1000),
      Entry("Mod-1000-1-0-1500009999.7z", 5),
      Entry("Mod-1000-2-0-cbbe-1600000000.7z", 1000),
      Entry("Mod-1000-2-1-uunp-1700000000.7z", 1000),
      Entry("Mod-1000-2-2-CBBE-2K-1800000000.7z", 1000),
      Entry("Mod-1000-3-0-1900000000.7z", 0) }

\* Folders of one mod name under two ModIDs, with part markers and doubled
\* dashes in the names.
KeysPool ==
    { Entry("X-1--1000-1-0-1500000000.7z", 1000),
      Entry("X-1000--1-a-1600000000.7z", 1000),
      Entry("X-1000-1-1-1700000000.7z", 1000),
      Entry("X part2-1000-1-2-1750000000.7z", 1000),
      Entry("X-1001-1-0-1800000000.7z", 1000),
      Entry("X-1001-1-1-1900000000.7z", 1000) }

\* Folders with two uploads of one version whose timestamp is beyond i64.
TiesPool ==
    { Entry("Mod-1000-0-9-1500000000.7z", 1000),
      Entry("Mod-1000-1-0-99999999999999999999.7z", 1000),
      Entry("Mod-1000-1-0-99999999999999999999.zip", 2000),
      Entry("Other-1001-1-0-1600000000.7z", 500),
      Entry("Other-1001-1-1-1700000000.7z", 700) }

\* Folders of re-uploads of one version: an hour apart and ten times the size
\* exactly, a second short of the hour, a byte over ten times, an empty file.
ReuploadsPool ==
    { Entry("Mod-1000-1-0-1500000000.7z", 1000),
      Entry("Mod-1000-1-0-1500003600.7z", 10000),
      Entry("Mod-1000-1-0-1500003599.zip", 1000),
      Entry("Mod-1000-1-0-1500007200.7z", 10001),
      Entry("Mod-1000-1-0-1600000000.7z", 0),
      Entry("Mod-1000-1-0-1700000000.zip", 0) }

\* Folders of a mod released in parts: two uploads of part 1, two of part 12,
\* part 2 and a part beyond the twenty the patterns are tried for.
PartsPool ==
    { Entry("Mod Part 1-1000-1-0-1500000000.7z", 1000),
      Entry("Mod Part 1-1000-1-1-1600000000.7z", 1000),
      Entry("Mod Part 2-1000-1-0-1500000000.7z", 1000),
      Entry("Mod Part 12-1000-1-0-1700000000.7z", 1000),
      Entry("Mod Part 12-1000-1-2-1800000000.7z", 1000),
      Entry("Mod Part 21-1000-1-0-1900000000.7z", 1000) }

FolderPools ==
    {UploadsPool, PatchPool, VariantsPool, KeysPool, TiesPool, ReuploadsPool, PartsPool}

(***************************************************************************)
(* scanner.rs: duplicate (old version) grouping                            *)
(***************************************************************************)

all_descriptors ==
    <<
      " 1k", " 2k", " 4k", " 8k", "-1k", "-2k", "-4k", "-8k", "cbbe", "uunp", "bhunp",
      "vanilla body", "bodyslide", " armor", " weapon", " clothes", " clothing",
      " hair", " gloves", " boots", " helmet", " meshes", " textures", "-armor",
      "-weapon", "-clothes", "-hair", "-gloves", " esp ", " esm ", " esl ", "esp-fe",
      "esp only", "esm only", "loose files", " bsa", " compat", "compatibility",
      " aslal", "no worldspace", "worldspace edit", " performance", " lite", " light",
      " full", " extended", " complete", " basic", " standard", " deluxe", " clean",
      " dirty", " gross", " optional", " addon", " add-on", " expansion"
    >>

\* The descriptors (by index) the lowercased file name contains.
descriptors_in(filename) ==
    LET lower == to_lowercase(filename)
    IN  {k \in 1..Len(all_descriptors) : Contains(lower, all_descriptors[k])}

\* The part indicator of a ModFile: that of its file name, else that of its
\* mod name, else the empty string.
part_indicator_of(mod_file) ==
    LET from_file_name == extract_part_indicator(mod_file.file_name)
        from_mod_name == extract_part_indicator(mod_file.mod_name)
    IN  IF from_file_name /= None THEN from_file_name[1]
        ELSE IF from_mod_name /= None THEN from_mod_name[1]
        ELSE ""

\* A key without the ModID.
mod_key_without_id(mod_file) ==
    normalize_mod_name(mod_file.mod_name) \o part_indicator_of(mod_file)

\* The key scan_folder_for_duplicates files a ModFile under.
mod_key_of(mod_file) ==
    mod_file.mod_id \o ":" \o normalize_mod_name(mod_file.mod_name)
        \o part_indicator_of(mod_file)

\* What the scan computes from a file name alone.
NameFacts(filename) ==
    [is_wabbajack_file    |-> is_wabbajack_file(filename),
     parsed               |-> parse_mod_filename(filename),
     mod_key              |-> IF parse_mod_filename(filename) = None THEN ""
                              ELSE mod_key_of(parse_mod_filename(filename)[1]),
     normalized_name      |-> IF parse_mod_filename(filename) = None THEN ""
                              ELSE normalize_mod_name(
                                       parse_mod_filename(filename)[1].mod_name),
     part_indicator       |-> IF parse_mod_filename(filename) = None THEN ""
                              ELSE part_indicator_of(parse_mod_filename(filename)[1]),
     descriptors          |-> descriptors_in(filename),
     is_full_or_main_file |-> is_full_or_main_file(filename)]

\* The same for the names of the scanned folder: computed once, when the scan
\* starts, and looked up from then on.
VARIABLE name_facts

FactsOf(filename) == name_facts[filename]

DescriptorsOf(filename) == FactsOf(filename).descriptors

\* A check that passes a file with descriptors beside a file without any.
has_conflicting_descriptors_disjoint_only(filename1, filename2) ==
    /\ DescriptorsOf(filename1) /= {}
    /\ DescriptorsOf(filename2) /= {}
    /\ DescriptorsOf(filename1) \cap DescriptorsOf(filename2) = {}

has_conflicting_descriptors(filename1, filename2) ==
    LET descriptors1 == DescriptorsOf(filename1)
        descriptors2 == DescriptorsOf(filename2)
    IN  \/ /\ (descriptors1 = {}) /= (descriptors2 = {})
           /\ (descriptors1 /= {} \/ descriptors2 /= {})
        \/ /\ descriptors1 /= {}
           /\ descriptors2 /= {}
           /\ descriptors1 \cap descriptors2 = {}

\* The seconds below which two uploads of one version are suspicious, and the
\* factor beyond which two sizes are.
SuspiciousSeconds == 3600
SizeRatioLimit == 10

\* (0.1..=10.0).contains(a as f64 / b as f64).  A zero divisor gives an infinity
\* or a NaN, which the range does not contain.  (Exact for sizes below 2^53 / 10.)
SizeRatioInRange(a, b) ==
    /\ b > 0
    /\ SizeRatioLimit * a >= b
    /\ a <= SizeRatioLimit * b

\* (a as f64 / b as f64) < 0.1
SizeRatioBelowTenth(a, b) == b > 0 /\ SizeRatioLimit * a < b

\* The block under "if file1.version == file2.version": the sizes are more than
\* ten times apart, or both timestamps parse and are less than an hour apart.
same_version_is_suspicious(file1, file2) ==
    /\ file1.version = file2.version
    /\ \/ ~SizeRatioInRange(file1.size, file2.size)
       \/ /\ ParsesAsI64(file1.timestamp)
          /\ ParsesAsI64(file2.timestamp)
          /\ NumCmp(NumAbsDiff(file2.timestamp, file1.timestamp),
                    to_string(SuspiciousSeconds)) < 0

\* The body of the two loops of has_suspicious_version_pattern.
SuspiciousPair(file1, file2) ==
    \/ same_version_is_suspicious(file1, file2)
    \/ has_conflicting_descriptors(file1.file_name, file2.file_name)

has_suspicious_version_pattern(group) ==
    /\ Len(group.files) >= 2
    /\ \E i \in 1..(Len(group.files) - 1) :
           \E j \in (i + 1)..Len(group.files) :
               SuspiciousPair(group.files[i], group.files[j])

\* The comparator of the sort: timestamp, then version, both as strings.
compare_files(a, b) ==
    IF StrCmp(a.timestamp, b.timestamp) = 0
    THEN StrCmp(a.version, b.version)
    ELSE StrCmp(a.timestamp, b.timestamp)

\* slice::sort_by with compare_files: a stable sort.
RECURSIVE sort_files(_)
sort_files(files) ==
    IF Len(files) <= 1 THEN files
    ELSE LET n == Len(files)
             sorted == sort_files(SubSeq(files, 1, n - 1))
             x == files[n]
             \* x goes behind every element that is not greater than it
             after == {i \in 1..(n - 1) : compare_files(sorted[i], x) > 0}
             at == IF after = {} THEN n ELSE CHOOSE i \in after : \A j \in after : i <= j
         IN  SubSeq(sorted, 1, at - 1) \o <<x>> \o SubSeq(sorted, at, n - 1)

\* A scan that does not compare the timestamps of a group.
has_unique_timestamps_unchecked(group) == Len(group.files) > 1

\* The group has files of more than one timestamp.
has_unique_timestamps(group) ==
    Cardinality({group.files[k].timestamp : k \in 1..Len(group.files)}) > 1

\* A scan without the patch/main gate.
has_patch_and_main_ignored(group) == FALSE

has_patch_and_main(group) ==
    /\ \E k \in 1..Len(group.files) : group.files[k].is_patch
    /\ \E k \in 1..Len(group.files) :
           FactsOf(group.files[k].file_name).is_full_or_main_file

\* A scan without the small-patch gate.
newest_is_small_patch_ignored(group) == FALSE

\* A gate that does not ask whether the newest file is a patch.
newest_is_small_patch_or_not(group) ==
    /\ Len(group.files) > 1
    /\ \E i \in 1..(Len(group.files) - 1) :
           SizeRatioBelowTenth(group.files[Len(group.files)].size, group.files[i].size)

\* The newest (last) file is a patch below a tenth of some older file's size.
newest_is_small_patch(group) ==
    LET n == Len(group.files)
        newest == group.files[n]
    IN  /\ newest.is_patch
        /\ n > 1
        /\ \E i \in 1..(n - 1) : SizeRatioBelowTenth(newest.size, group.files[i].size)

\* A sum that counts the kept file too.
space_to_free_of_all(files, newest_idx) == SumSizes(files)

space_to_free_of(files, newest_idx) == SumSizes(SubSeq(files, 1, newest_idx))

\* The body of the loop over mod_groups: None when the group is skipped, else the
\* group as pushed to duplicates (newest_idx counts from 0, as in the code).
examine_group(group) ==
    IF Len(group.files) <= 1 THEN None
    ELSE IF ~has_unique_timestamps(group) THEN None
    ELSE LET sorted == [group EXCEPT !.files = sort_files(group.files)]
         IN  IF has_suspicious_version_pattern(sorted) THEN None
             ELSE IF has_patch_and_main(sorted) THEN None
             ELSE IF newest_is_small_patch(sorted) THEN None
             ELSE Some([sorted EXCEPT
                          !.newest_idx = Len(sorted.files) - 1,
                          !.space_to_free =
                              space_to_free_of(sorted.files, Len(sorted.files) - 1)])

RECURSIVE SumOldCounts(_)
SumOldCounts(groups) ==
    IF Len(groups) = 0 THEN 0
    ELSE (Len(groups[1].files) - 1) + SumOldCounts(Tail(groups))

RECURSIVE SumSpaceToFree(_)
SumSpaceToFree(groups) ==
    IF Len(groups) = 0 THEN 0
    ELSE groups[1].space_to_free + SumSpaceToFree(Tail(groups))

(***************************************************************************)
(* cleaner.rs: the file system and the deletion of one file                *)
(***************************************************************************)

\* The file system: a function from the paths of the existing files to their
\* contents (a content is named after the path the file was first seen at).
Exists(fs, path) == path \in DOMAIN fs

\* fs::rename: the destination is replaced if it exists.
Rename(fs, from, to) ==
    [p \in (DOMAIN fs \ {from}) \cup {to} |-> IF p = to THEN fs[from] ELSE fs[p]]

\* fs::remove_file
RemoveFile(fs, path) == [p \in DOMAIN fs \ {path} |-> fs[p]]

\* Path::join and the sidecar's name
PathJoin(dir, name) == dir \o "/" \o name
MetaOf(path) == path \o ".meta"

\* Result<u64, String>: the message is kept as its text and its argument.
Ok(value) == [ok |-> TRUE, value |-> value]
Err(message, argument) == [ok |-> FALSE, value |-> <<message, argument>>]

\* delete_mod_file that takes a missing file for a deleted one.
delete_mod_file_missing_is_deleted(file, backup_dir, fs, locked, io_ok, meta_ok) ==
    IF ~Exists(fs, file.full_path)
    THEN [result |-> Ok(file.size), fs |-> fs, swallowed |-> {}]
    ELSE IF locked
    THEN [result |-> Err("File is locked", file.full_path), fs |-> fs, swallowed |-> {}]
    ELSE [result |-> Ok(file.size),
          fs |-> IF backup_dir /= None
                 THEN Rename(fs, file.full_path, PathJoin(backup_dir[1], file.file_name))
                 ELSE RemoveFile(fs, file.full_path),
          swallowed |-> {}]

\* delete_mod_file without the move of the sidecar.
delete_mod_file_without_sidecar(file, backup_dir, fs, locked, io_ok, meta_ok) ==
    LET path == file.full_path
    IN  IF ~Exists(fs, path)
        THEN [result |-> Err("File no longer exists", path), fs |-> fs, swallowed |-> {}]
        ELSE IF locked
        THEN [result |-> Err("File is locked", path), fs |-> fs, swallowed |-> {}]
        ELSE IF ~io_ok
        THEN [result |-> Err(IF backup_dir /= None THEN "Failed to move file"
                             ELSE "Failed to delete file", path),
              fs |-> fs, swallowed |-> {}]
        ELSE [result |-> Ok(file.size),
              fs |-> IF backup_dir /= None
                     THEN Rename(fs, path, PathJoin(backup_dir[1], file.file_name))
                     ELSE RemoveFile(fs, path),
              swallowed |-> {}]

\* delete_mod_file on the file system fs.  What the environment decides is
\* given: whether the file is locked, whether the move or removal of the file
\* succeeds, whether that of the sidecar does.  The value has the Result, the
\* file system afterwards and the sidecar whose failure was ignored, if any.
delete_mod_file(file, backup_dir, fs, locked, io_ok, meta_ok) ==
    LET path == file.full_path
        meta_path == MetaOf(path)
    IN  IF ~Exists(fs, path)
        THEN [result |-> Err("File no longer exists", path), fs |-> fs, swallowed |-> {}]
        ELSE IF locked
        THEN [result |-> Err("File is locked", path), fs |-> fs, swallowed |-> {}]
        ELSE IF backup_dir /= None
        THEN IF ~io_ok
             THEN [result |-> Err("Failed to move file", path), fs |-> fs, swallowed |-> {}]
             ELSE LET moved == Rename(fs, path, PathJoin(backup_dir[1], file.file_name))
                      backup_meta == PathJoin(backup_dir[1], MetaOf(file.file_name))
                  IN  [result |-> Ok(file.size),
                       fs |-> IF Exists(moved, meta_path) /\ meta_ok
                              THEN Rename(moved, meta_path, backup_meta)
                              ELSE moved,
                       swallowed |-> IF Exists(moved, meta_path) /\ ~meta_ok
                                     THEN {meta_path} ELSE {}]
        ELSE IF ~io_ok
             THEN [result |-> Err("Failed to delete file", path), fs |-> fs, swallowed |-> {}]
             ELSE LET removed == RemoveFile(fs, path)
                  IN  [result |-> Ok(file.size),
                       fs |-> IF Exists(removed, meta_path) /\ meta_ok
                              THEN RemoveFile(removed, meta_path)
                              ELSE removed,
                       swallowed |-> IF Exists(removed, meta_path) /\ ~meta_ok
                                     THEN {meta_path} ELSE {}]

\* DeletionResult::default()
DefaultDeletionResult ==
    [deleted_count |-> 0, space_freed |-> 0, skipped |-> <<>>, errors |-> <<>>]

\* An Ok arm that counts the file and not its size.
RecordDeletedWithoutSize(result, size) ==
    [result EXCEPT !.deleted_count = @ + 1]

\* The Ok arm of the loops of delete_orphaned_mods and delete_old_versions.
RecordDeleted(result, size) ==
    [result EXCEPT !.deleted_count = @ + 1, !.space_freed = @ + size]

\* An Err arm that forgets the file's name.
RecordFailureErrorsOnly(result, file_name, error) ==
    [result EXCEPT !.errors = Append(@, error)]

\* The Err arm of the loops, and the arm of the failed safety check.
RecordFailure(result, file_name, error) ==
    [result EXCEPT !.skipped = Append(@, file_name), !.errors = Append(@, error)]

\* duplicates.iter().flat_map(|group| group.files[..group.newest_idx].iter())
RECURSIVE files_to_delete_of(_)
files_to_delete_of(groups) ==
    IF Len(groups) = 0 THEN <<>>
    ELSE SubSeq(groups[1].files, 1, groups[1].newest_idx)
             \o files_to_delete_of(Tail(groups))

\* The index (from 0) of the first file of the group at the path, if any.
PositionOf(group, path) ==
    LET at == {k \in 1..Len(group.files) : group.files[k].full_path = path}
    IN  IF at = {} THEN None ELSE Some((CHOOSE k \in at : \A j \in at : k <= j) - 1)

\* A deletion that is not validated.
validate_deletion_safety_skipped(groups, file, fs) == TRUE

\* A validation that looks at the file's position only, not at the disk.
validate_deletion_safety_position_only(groups, file, fs) ==
    \A g \in 1..Len(groups) :
        LET group == groups[g]
            file_idx == PositionOf(group, file.full_path)
        IN  \/ Len(group.files) <= 1
            \/ file_idx = None
            \/ file_idx[1] < group.newest_idx

validate_deletion_safety(groups, file, fs) ==
    \A g \in 1..Len(groups) :
        LET group == groups[g]
            file_idx == PositionOf(group, file.full_path)
        IN  \/ Len(group.files) <= 1
            \/ file_idx = None
            \/ /\ file_idx[1] < group.newest_idx
               /\ Exists(fs, group.files[group.newest_idx + 1].full_path)

(***************************************************************************)
(* State                                                                   *)
(***************************************************************************)

VARIABLES
    pc,               \* where the running operation stands
    manifests,        \* the selected .wabbajack files: each one's Archives
    active_modlists,  \* the ModlistInfo of the manifests parsed so far
    mod_files,        \* the library's files (get_all_mod_files)
    scan_result,      \* detect_orphaned_mods' ScanResult, None before
    folder,           \* the entries of the folder scanned for old versions
    to_read,          \* the entries read_dir has not yet yielded
    mod_groups,       \* scan_folder_for_duplicates' HashMap: key -> ModGroup
    skipped,          \* its count of files that are no mod archives
    duplicates,       \* the groups it has pushed
    dup_result,       \* its OldVersionScanResult, None before (and on Err)
    operation,        \* the deletion called: "orphans", "old_versions" or "none"
    backup_dir,       \* its backup_dir argument
    orphaned_mods,    \* the argument of delete_orphaned_mods
    old_groups,       \* the duplicates argument of delete_old_versions
    disk,             \* the file system
    processed,        \* the number of loop iterations done
    del_result,       \* the DeletionResult being built
    progress,         \* the calls of the progress callback: <<current, total>>
    disk0,            \* history: the file system when the deletion started
    earlier_runs,     \* history: the earlier calls with these records
    env_log,          \* history: the operations that failed, in order
    filename,         \* the argument of parse_mod_filename
    parsed_file,      \* its Option<ModFile>, None before
    game_folders,     \* the argument of get_all_mod_files: the folders' entries
    folders_read,     \* the number of folders it has gone through
    all_files,        \* the Vec<ModFile> it collects
    base_entries,     \* the entries of the argument of get_game_folders
    unchecked,        \* those its first read_dir has not yet yielded
    unlisted,         \* those its second read_dir has not yet yielded
    has_mod_files,    \* its flag
    folders           \* the Vec<PathBuf> it collects

classify_vars == <<manifests, active_modlists, mod_files, scan_result>>
scan_vars == <<folder, to_read, mod_groups, skipped, duplicates, dup_result, name_facts>>
delete_vars == <<operation, backup_dir, orphaned_mods, old_groups, disk, processed,
                 del_result, progress, disk0, earlier_runs, env_log>>
library_vars == <<filename, parsed_file, game_folders, folders_read, all_files>>
folders_vars == <<base_entries, unchecked, unlisted, has_mod_files, folders>>
vars == <<pc, classify_vars, scan_vars, delete_vars, library_vars, folders_vars>>

EmptyMap == [k \in {} |-> None]

\* The values of the variables of an operation that is not running.
ClassifyIdle ==
    /\ manifests = <<>>
    /\ active_modlists = <<>>
    /\ mod_files = <<>>
    /\ scan_result = None

LibraryIdle ==
    /\ filename = ""
    /\ parsed_file = None
    /\ game_folders = <<>>
    /\ folders_read = 0
    /\ all_files = <<>>

FoldersIdle ==
    /\ base_entries = {}
    /\ unchecked = {}
    /\ unlisted = {}
    /\ has_mod_files = FALSE
    /\ folders = <<>>

ScanIdle ==
    /\ folder = {}
    /\ to_read = {}
    /\ mod_groups = EmptyMap
    /\ skipped = 0
    /\ duplicates = <<>>
    /\ dup_result = None
    /\ name_facts = EmptyMap

DeleteIdle ==
    /\ operation = "none"
    /\ backup_dir = None
    /\ orphaned_mods = <<>>
    /\ old_groups = <<>>
    /\ disk = EmptyMap
    /\ processed = 0
    /\ del_result = DefaultDeletionResult
    /\ progress = <<>>
    /\ disk0 = EmptyMap
    /\ earlier_runs = <<>>
    /\ env_log = <<>>

(***************************************************************************)
(* Orphan detection: parse the selected manifests, then classify.          *)
(***************************************************************************)

\* The sequences over S of length at most n.
SeqsUpTo(S, n) == UNION {[1..k -> S] : k \in 0..n}

MaxManifests == 2
MaxModFiles == 2

\* Manifests as the tests write them and as the format allows: ModID and FileID
\* present, absent or not positive.
ManifestPool ==
    { <<Archive(Some(5000), Some(5001))>>,
      <<Archive(Some(5000), Some(9999)), Archive(Some(123), Some(4567))>>,
      <<Archive(Some(123), None), Archive(None, Some(4567))>>,
      <<Archive(Some(0), Some(5001)), Archive(Some(9000), Some(0))>>,
      <<Archive(Some(-7), Some(4567)), Archive(Some(123), Some(-1))>>,
      <<>> }

\* Library files: a name and the size the file system reports.
LibraryPool ==
    { <<"TestMod-5000-9999-1-0-1500000000.7z", 1000>>,
      <<"TestMod-5000-5001-2-0-1600000000.7z", 800>>,
      <<"Simple Mod-123-1-0-1234567890.rar", 500>>,
      <<"OrphanMod-9000-9001-1-0-1234567890.zip", 300>>,
      <<"Padded-0123-4567-1-0-1234567890.zip", 200>> }

LibraryFile(e) ==
    [parse_mod_filename(e[1])[1] EXCEPT !.full_path = "downloads/" \o e[1], !.size = e[2]]

ClassifyInit ==
    /\ pc = "parse"
    /\ manifests \in SeqsUpTo(ManifestPool, MaxManifests)
    /\ active_modlists = <<>>
    /\ mod_files \in SeqsUpTo({LibraryFile(e) : e \in LibraryPool}, MaxModFiles)
    /\ scan_result = None
    /\ ScanIdle
    /\ DeleteIdle
    /\ LibraryIdle
    /\ FoldersIdle

\* parse_wabbajack_file on the next selected manifest.
ParseWabbajackFile ==
    /\ pc = "parse"
    /\ Len(active_modlists) < Len(manifests)
    /\ active_modlists' =
           Append(active_modlists, parse_wabbajack_file(manifests[Len(active_modlists) + 1]))
    /\ UNCHANGED <<pc, manifests, mod_files, scan_result, scan_vars, delete_vars, library_vars, folders_vars>>

DetectOrphanedMods ==
    /\ pc = "parse"
    /\ Len(active_modlists) = Len(manifests)
    /\ scan_result' = Some(detect_orphaned_mods(mod_files, active_modlists))
    /\ pc' = "classified"
    /\ UNCHANGED <<manifests, active_modlists, mod_files, scan_vars, delete_vars, library_vars, folders_vars>>

ClassifyNext == ParseWabbajackFile \/ DetectOrphanedMods

SpecClassify == ClassifyInit /\ [][ClassifyNext]_vars

(***************************************************************************)
(* Old-version detection: scan_folder_for_duplicates on one folder.        *)
(***************************************************************************)

MaxFolderFiles == 4

ScanInit ==
    /\ pc = "scan"
    /\ \E pool \in FolderPools :
           folder \in {f \in SUBSET pool : Cardinality(f) <= MaxFolderFiles}
    /\ to_read = folder
    /\ mod_groups = EmptyMap
    /\ skipped = 0
    /\ duplicates = <<>>
    /\ dup_result = None
    /\ name_facts = [n \in {e.name : e \in folder} |-> NameFacts(n)]
    /\ ClassifyIdle
    /\ DeleteIdle
    /\ LibraryIdle
    /\ FoldersIdle

\* The ModFile of a directory entry that parses: path and size filled in.
ScannedFile(entry) ==
    [FactsOf(entry.name).parsed[1] EXCEPT
        !.full_path = FolderPath \o "/" \o entry.name,
        !.size = entry.size]

NewGroup(mod_key) ==
    [mod_key |-> mod_key, files |-> <<>>, newest_idx |-> 0, space_to_free |-> 0]

\* One iteration of the loop over read_dir, which yields entries in no
\* particular order.
ReadEntry ==
    /\ pc = "scan"
    /\ \E entry \in to_read :
        /\ to_read' = to_read \ {entry}
        /\ IF entry.is_dir
           THEN UNCHANGED <<mod_groups, skipped>>
           ELSE IF \/ ~FactsOf(entry.name).is_wabbajack_file
                   \/ FactsOf(entry.name).parsed = None
           THEN /\ skipped' = skipped + 1
                /\ UNCHANGED mod_groups
           ELSE LET mod_file == ScannedFile(entry)
                    mod_key == FactsOf(entry.name).mod_key
                    group == IF mod_key \in DOMAIN mod_groups
                             THEN mod_groups[mod_key]
                             ELSE NewGroup(mod_key)
                    pushed == [group EXCEPT !.files = Append(@, mod_file)]
                IN  /\ mod_groups' =
                           [k \in DOMAIN mod_groups \cup {mod_key} |->
                               IF k = mod_key THEN pushed ELSE mod_groups[k]]
                    /\ UNCHANGED skipped
    /\ UNCHANGED <<pc, folder, duplicates, dup_result, name_facts, classify_vars,
                   delete_vars, library_vars, folders_vars>>

\* read_dir, an entry, its file type or its metadata gives an I/O error: the
\* scan returns Err.
ScanFails ==
    /\ pc = "scan"
    /\ to_read /= {} \/ to_read = folder
    /\ pc' = "scan_failed"
    /\ UNCHANGED <<scan_vars, classify_vars, delete_vars, library_vars, folders_vars>>

\* One iteration of the loop over mod_groups, a HashMap: any order.
ProcessGroup ==
    /\ pc = "scan"
    /\ to_read = {}
    /\ \E mod_key \in DOMAIN mod_groups :
        /\ duplicates' = duplicates \o examine_group(mod_groups[mod_key])
        /\ mod_groups' = [k \in DOMAIN mod_groups \ {mod_key} |-> mod_groups[k]]
    /\ UNCHANGED <<pc, folder, to_read, skipped, dup_result, name_facts, classify_vars,
                   delete_vars, library_vars, folders_vars>>

FinishScan ==
    /\ pc = "scan"
    /\ to_read = {}
    /\ DOMAIN mod_groups = {}
    /\ dup_result' = Some([duplicates |-> duplicates,
                           total_files |-> SumOldCounts(duplicates),
                           total_space |-> SumSpaceToFree(duplicates)])
    /\ pc' = "scanned"
    /\ UNCHANGED <<folder, to_read, mod_groups, skipped, duplicates, name_facts,
                   classify_vars, delete_vars, library_vars, folders_vars>>

ScanNext == ReadEntry \/ ScanFails \/ ProcessGroup \/ FinishScan

SpecScan == ScanInit /\ [][ScanNext]_vars

(***************************************************************************)
(* Deletion: delete_orphaned_mods and delete_old_versions.                 *)
(***************************************************************************)

BackupPath == "downloads/WLC_Backup/2025-01-01_12-00-00"

\* A ModFile of a game folder, as get_all_mod_files and the scans make it.
GameFile(game_folder, name, size) ==
    [parse_mod_filename(name)[1] EXCEPT
        !.full_path = PathJoin(game_folder, name), !.size = size]

\* The files delete_old_versions is given groups of: uploads of one mod.
OldVersionFiles ==
    { GameFile(FolderPath, "Mod-1000-1-0-1500000000.7z", 1000),
      GameFile(FolderPath, "Mod-1000-1-1-1600000000.7z", 800),
      GameFile(FolderPath, "Mod-1000-1-2-1700000000.7z", 600) }

\* The files delete_orphaned_mods is given records of: two game folders, one
\* file name in both.
OrphanFiles ==
    { GameFile("Skyrim", "OrphanMod-9000-9001-1-0-1234567890.zip", 300),
      GameFile("Fallout", "OrphanMod-9000-9001-1-0-1234567890.zip", 200),
      GameFile("Skyrim", "Simple Mod-123-1-0-1234567890.rar", 500) }

\* The files that have a sidecar while they exist.
SidecarNames == {"Mod-1000-1-0-1500000000.7z", "OrphanMod-9000-9001-1-0-1234567890.zip"}

Distinct(seq) == \A i, j \in 1..Len(seq) : seq[i] = seq[j] => i = j

\* The groups over the files: no path twice in a group, any member kept.
GroupsOver(files) ==
    UNION {{[mod_key |-> "1000:Mod", files |-> fs, newest_idx |-> kept,
             space_to_free |-> space_to_free_of(fs, kept)] :
               kept \in 0..(Len(fs) - 1)} :
           fs \in {x \in SeqsUpTo(files, Cardinality(files)) : Len(x) >= 1 /\ Distinct(x)}}

GroupPool == GroupsOver(OldVersionFiles)

MaxGroups == 2
MaxOrphans == 2

\* The file system with the given files and the sidecars of those that have one.
DiskOf(files) ==
    LET paths == {f.full_path : f \in files}
        metas == {MetaOf(f.full_path) : f \in {x \in files : x.file_name \in SidecarNames}}
    IN  [p \in paths \cup metas |-> p]

DeleteInit ==
    /\ pc = "delete_start"
    /\ \/ /\ operation = "old_versions"
          /\ old_groups \in SeqsUpTo(GroupPool, MaxGroups)
          /\ orphaned_mods = <<>>
          /\ \E present \in SUBSET OldVersionFiles : disk = DiskOf(present)
       \/ /\ operation = "orphans"
          /\ orphaned_mods \in
                 {x \in SeqsUpTo({[file |-> f] : f \in OrphanFiles}, MaxOrphans) :
                     Distinct(x)}
          /\ old_groups = <<>>
          /\ \E present \in SUBSET OrphanFiles : disk = DiskOf(present)
    /\ backup_dir \in {None, Some(BackupPath)}
    /\ processed = 0
    /\ del_result = DefaultDeletionResult
    /\ progress = <<>>
    /\ disk0 = disk
    /\ earlier_runs = <<>>
    /\ env_log = <<>>
    /\ ClassifyIdle
    /\ ScanIdle
    /\ LibraryIdle
    /\ FoldersIdle

\* A callback that counts from zero.
progress_callback_from_zero(calls, current, total) ==
    Append(calls, <<current - 1, total>>)

\* cb(i + 1, total): the calls of the observer so far and one more.
progress_callback(calls, current, total) == Append(calls, <<current, total>>)

\* The files the running deletion loops over.
files_to_delete ==
    IF operation = "orphans"
    THEN [k \in 1..Len(orphaned_mods) |-> orphaned_mods[k].file]
    ELSE files_to_delete_of(old_groups)

\* The start of either function, to the loop: the backup directory, if one is
\* given, is created.
StartDeletion ==
    /\ pc = "delete_start"
    /\ pc' = "delete_loop"
    /\ UNCHANGED <<delete_vars, classify_vars, scan_vars, library_vars, folders_vars>>

\* create_dir_all returns Ok for a directory that exists: the one an earlier
\* call has made.
DirectoryExists ==
    \E k \in 1..Len(earlier_runs) : earlier_runs[k].backup_dir = backup_dir

\* A failure of create_dir_all that is recorded without returning.
BackupDirFailsAndGoesOn ==
    /\ pc = "delete_start"
    /\ backup_dir /= None
    /\ ~DirectoryExists
    /\ del_result' = [del_result EXCEPT
                         !.errors = Append(@, <<"Failed to create backup folder",
                                                backup_dir[1]>>)]
    /\ env_log' = Append(env_log, "create_dir_all")
    /\ pc' = "delete_loop"
    /\ UNCHANGED <<operation, backup_dir, orphaned_mods, old_groups, disk, processed,
                   progress, disk0, earlier_runs, classify_vars, scan_vars, library_vars, folders_vars>>

\* create_dir_all fails: the function returns with the one error.
BackupDirFails ==
    /\ pc = "delete_start"
    /\ backup_dir /= None
    /\ ~DirectoryExists
    /\ del_result' = [del_result EXCEPT
                         !.errors = Append(@, <<"Failed to create backup folder",
                                                backup_dir[1]>>)]
    /\ env_log' = Append(env_log, "create_dir_all")
    /\ pc' = "deleted"
    /\ UNCHANGED <<operation, backup_dir, orphaned_mods, old_groups, disk, processed,
                   progress, disk0, earlier_runs, classify_vars, scan_vars, library_vars, folders_vars>>

\* The operation that failed in a call of delete_mod_file, if any.
FailedOperation(outcome) ==
    IF ~outcome.result.ok THEN <<outcome.result.value[1]>>
    ELSE IF outcome.swallowed /= {} THEN <<"sidecar">>
    ELSE <<>>

\* The call of delete_mod_file and the match on its Result.
DeleteAndRecord(file) ==
    \E locked, io_ok, meta_ok \in BOOLEAN :
        LET outcome == delete_mod_file(file, backup_dir, disk, locked, io_ok, meta_ok)
        IN  /\ disk' = outcome.fs
            /\ del_result' =
                   IF outcome.result.ok
                   THEN RecordDeleted(del_result, outcome.result.value)
                   ELSE RecordFailure(del_result, file.file_name, outcome.result.value)
            /\ env_log' = env_log \o FailedOperation(outcome)

\* The head of an iteration of either loop: the progress callback is called.
ReportProgress ==
    /\ pc = "delete_loop"
    /\ processed < Len(files_to_delete)
    /\ progress' = progress_callback(progress, processed + 1, Len(files_to_delete))
    /\ pc' = "delete_item"
    /\ UNCHANGED <<operation, backup_dir, orphaned_mods, old_groups, disk, processed,
                   del_result, disk0, earlier_runs, env_log, classify_vars, scan_vars, library_vars, folders_vars>>

\* The rest of an iteration of the loop of delete_orphaned_mods.
DeleteOrphanStep ==
    /\ pc = "delete_item"
    /\ operation = "orphans"
    /\ DeleteAndRecord(files_to_delete[processed + 1])
    /\ processed' = processed + 1
    /\ pc' = "delete_loop"
    /\ UNCHANGED <<operation, backup_dir, orphaned_mods, old_groups, progress, disk0, earlier_runs,
                   classify_vars, scan_vars, library_vars, folders_vars>>

\* The rest of an iteration of the loop of delete_old_versions.
DeleteOldVersionStep ==
    /\ pc = "delete_item"
    /\ operation = "old_versions"
    /\ LET file == files_to_delete[processed + 1]
       IN  IF ~validate_deletion_safety(old_groups, file, disk)
           THEN /\ del_result' = RecordFailure(del_result, file.file_name,
                                               <<"Safety check failed for", file.file_name>>)
                /\ env_log' = Append(env_log, "Safety check failed for")
                /\ UNCHANGED disk
           ELSE DeleteAndRecord(file)
    /\ processed' = processed + 1
    /\ pc' = "delete_loop"
    /\ UNCHANGED <<operation, backup_dir, orphaned_mods, old_groups, progress, disk0, earlier_runs,
                   classify_vars, scan_vars, library_vars, folders_vars>>

\* The loop is over: the function returns its result.
FinishDeletion ==
    /\ pc = "delete_loop"
    /\ processed = Len(files_to_delete)
    /\ pc' = "deleted"
    /\ UNCHANGED <<delete_vars, classify_vars, scan_vars, library_vars, folders_vars>>

DeleteNext ==
    \/ StartDeletion
    \/ BackupDirFails
    \/ ReportProgress
    \/ DeleteOrphanStep
    \/ DeleteOldVersionStep
    \/ FinishDeletion

SpecDelete == DeleteInit /\ [][DeleteNext]_vars

(***************************************************************************)
(* A second call of the deletion with the records of the first             *)
(***************************************************************************)

\* The backup directory of a call made a second later (app.rs names it after
\* the time of the call).
LaterBackupPath == "downloads/WLC_Backup/2025-01-01_12-00-01"

\* Every file of the records is on the disk when the first call starts.
RerunInit ==
    /\ pc = "delete_start"
    /\ \/ /\ operation = "old_versions"
          /\ old_groups \in SeqsUpTo(GroupPool, MaxGroups)
          /\ orphaned_mods = <<>>
          /\ disk = DiskOf(OldVersionFiles)
       \/ /\ operation = "orphans"
          /\ orphaned_mods \in
                 {x \in SeqsUpTo({[file |-> f] : f \in OrphanFiles}, MaxOrphans) :
                     Distinct(x)}
          /\ old_groups = <<>>
          /\ disk = DiskOf(OrphanFiles)
    /\ backup_dir \in {None, Some(BackupPath)}
    /\ processed = 0
    /\ del_result = DefaultDeletionResult
    /\ progress = <<>>
    /\ disk0 = disk
    /\ earlier_runs = <<>>
    /\ env_log = <<>>
    /\ ClassifyIdle
    /\ ScanIdle
    /\ LibraryIdle
    /\ FoldersIdle

\* The call has deleted every file it was given.
FullySuccessful ==
    /\ del_result.deleted_count = Len(files_to_delete)
    /\ del_result.skipped = <<>>
    /\ del_result.errors = <<>>

\* The caller calls the function again with the same records, after a call
\* that deleted them all: the function starts over on the disk as it is.
RunAgain ==
    /\ pc = "deleted"
    /\ earlier_runs = <<>>
    /\ FullySuccessful
    /\ earlier_runs' = Append(earlier_runs,
                              [backup_dir |-> backup_dir, result |-> del_result])
    /\ backup_dir' \in {None, Some(BackupPath), Some(LaterBackupPath)}
    /\ processed' = 0
    /\ del_result' = DefaultDeletionResult
    /\ progress' = <<>>
    /\ disk0' = disk
    /\ env_log' = <<>>
    /\ pc' = "delete_start"
    /\ UNCHANGED <<operation, orphaned_mods, old_groups, disk, classify_vars, scan_vars,
                   library_vars, folders_vars>>

RerunNext ==
    \/ StartDeletion
    \/ BackupDirFails
    \/ ReportProgress
    \/ DeleteOrphanStep
    \/ DeleteOldVersionStep
    \/ FinishDeletion
    \/ RunAgain

SpecRerun == RerunInit /\ [][RerunNext]_vars

(***************************************************************************)
(* delete_old_versions beside another process that removes files           *)
(***************************************************************************)

\* The path of the file a group keeps.
NewestPath(group) == group.files[group.newest_idx + 1].full_path

\* What env_log holds for a file another process removed.
RemovedByOther(path) == "removed " \o path

\* The groups whose files are in the order the scan's sort leaves them in.
SortedGroupPool == {group \in GroupPool : sort_files(group.files) = group.files}

\* Every file is on the disk when the batch starts: the files that go are
\* removed by the other process.
DeleteBesideOtherInit ==
    /\ pc = "delete_start"
    /\ operation = "old_versions"
    /\ old_groups \in SeqsUpTo(SortedGroupPool, MaxGroups)
    /\ orphaned_mods = <<>>
    /\ disk = DiskOf(OldVersionFiles)
    /\ backup_dir \in {None, Some(BackupPath)}
    /\ processed = 0
    /\ del_result = DefaultDeletionResult
    /\ progress = <<>>
    /\ disk0 = disk
    /\ earlier_runs = <<>>
    /\ env_log = <<>>
    /\ ClassifyIdle
    /\ ScanIdle
    /\ LibraryIdle
    /\ FoldersIdle

\* Another process removes the newest file of a group, between two iterations
\* of the loop or between the callback and the validation.
OtherProcessRemovesNewest ==
    /\ pc \in {"delete_loop", "delete_item"}
    /\ \E g \in 1..Len(old_groups) :
           /\ Exists(disk, NewestPath(old_groups[g]))
           /\ disk' = RemoveFile(disk, NewestPath(old_groups[g]))
           /\ env_log' = Append(env_log, RemovedByOther(NewestPath(old_groups[g])))
    /\ UNCHANGED <<pc, operation, backup_dir, orphaned_mods, old_groups, processed,
                   del_result, progress, disk0, earlier_runs, classify_vars, scan_vars, library_vars, folders_vars>>

DeleteBesideOtherNext ==
    \/ StartDeletion
    \/ BackupDirFails
    \/ ReportProgress
    \/ DeleteOldVersionStep
    \/ FinishDeletion
    \/ OtherProcessRemovesNewest

SpecDeleteBesideOther == DeleteBesideOtherInit /\ [][DeleteBesideOtherNext]_vars

(***************************************************************************)
(* parse_mod_filename on its own                                           *)
(***************************************************************************)

\* The file names parsed: up to MaxSegments segments joined by dashes and an
\* extension, the names of test_parse_mod_filename and some more.
MaxSegments == 5

SegmentPool == {"Mod", "", "123", "1234", "1234567890"}

ExtensionPool == {".7z", ".ZIP", ".txt"}

TestFileNames ==
    { "Skyrim 2020-12345-67890-1-0-1234567890.7z",
      "Simple Mod-123-1-0-1234567890.rar",
      "NoModID-1234567890.7z",
      "Mod-123-1-0-1234567890.txt",
      "Mod-12-1234567-1234567890.7z",
      "Mod-123-1234567-1-1234567890.tar.gz",
      "nodash.7z" }

FileNames ==
    {Join(segments, "-") \o ext :
        segments \in SeqsUpTo(SegmentPool, MaxSegments), ext \in ExtensionPool}
    \cup TestFileNames

ParseInit ==
    /\ pc = "parse_name"
    /\ filename \in FileNames
    /\ parsed_file = None
    /\ game_folders = <<>>
    /\ folders_read = 0
    /\ all_files = <<>>
    /\ ClassifyIdle
    /\ ScanIdle
    /\ DeleteIdle
    /\ FoldersIdle

ParseModFilename ==
    /\ pc = "parse_name"
    /\ parsed_file' = parse_mod_filename(filename)
    /\ pc' = "parsed_name"
    /\ UNCHANGED <<filename, game_folders, folders_read, all_files, classify_vars,
                   scan_vars, delete_vars, folders_vars>>

ParseNext == ParseModFilename

SpecParse == ParseInit /\ [][ParseNext]_vars

(***************************************************************************)
(* scanner.rs: get_all_mod_files                                           *)
(***************************************************************************)

\* A directory entry: its name, what file_type() gives ("file", "dir" or
\* "error"), and what fs::metadata gives: the length, or an error.
FolderEntry(name, file_type, size, metadata_ok) ==
    [name |-> name, file_type |-> file_type, size |-> size,
     metadata_ok |-> metadata_ok]

\* A closure that does not ask is_wabbajack_file.
collect_entry_unfiltered(path, entry) ==
    LET parsed == parse_mod_filename(entry.name)
    IN  IF parsed /= None /\ entry.metadata_ok
        THEN <<[parsed[1] EXCEPT !.full_path = PathJoin(path, entry.name),
                                 !.size = entry.size]>>
        ELSE <<>>

\* A closure that returns an archive whose name does not parse as a ModFile of
\* empty fields.
collect_entry_generic(path, entry) ==
    IF ~is_wabbajack_file(entry.name) \/ ~entry.metadata_ok THEN <<>>
    ELSE LET parsed == parse_mod_filename(entry.name)
             mod_file == IF parsed /= None THEN parsed[1]
                         ELSE [file_name |-> entry.name, full_path |-> "",
                               mod_name |-> entry.name, mod_id |-> "",
                               file_id |-> None, version |-> "", timestamp |-> "",
                               size |-> 0, is_patch |-> FALSE]
         IN  <<[mod_file EXCEPT !.full_path = PathJoin(path, entry.name),
                                !.size = entry.size]>>

\* The filter_map closure on one entry of the folder at path: no ModFile or one.
collect_entry(path, entry) ==
    IF ~is_wabbajack_file(entry.name) THEN <<>>
    ELSE LET parsed == parse_mod_filename(entry.name)
         IN  IF parsed /= None /\ entry.metadata_ok
             THEN <<[parsed[1] EXCEPT !.full_path = PathJoin(path, entry.name),
                                      !.size = entry.size]>>
             ELSE <<>>

\* The entries kept for the second pass: those whose file_type is no directory
\* and no error.
valid_entries(game_folder) ==
    {e \in game_folder.entries : e.file_type = "file"}

\* The ModFiles of the entries in the order read_dir yielded them.
RECURSIVE collect_entries(_, _)
collect_entries(path, order) ==
    IF Len(order) = 0 THEN <<>>
    ELSE collect_entry(path, order[1]) \o collect_entries(path, Tail(order))

\* The orders in which read_dir can yield the entries.
Orderings(entries) ==
    {order \in [1..Cardinality(entries) -> entries] :
        \A i, j \in 1..Cardinality(entries) : order[i] = order[j] => i = j}

\* A closure that goes on with the entries of a folder whose read_dir failed.
folder_files_despite_error(game_folder, order) ==
    collect_entries(game_folder.path, order)

\* The flat_map closure on one folder, read_dir yielding its entries in the
\* given order: nothing if read_dir fails.
folder_files(game_folder, order) ==
    IF ~game_folder.readable THEN <<>>
    ELSE collect_entries(game_folder.path, order)

\* What the folders hold: a mod archive, an archive that is no mod file, a
\* file that is no archive, a directory named as an archive, a partial
\* download, an entry whose type cannot be read and a file that is gone when
\* its metadata is asked for.
LibraryEntries ==
    { FolderEntry("ValidMod-1000-2000-1-0-1234567890.7z", "file", 100, TRUE),
      FolderEntry("nodash.7z", "file", 0, TRUE),
      FolderEntry("readme.txt", "file", 10, TRUE),
      FolderEntry("Dir-1000-1-0-1500000000.7z", "dir", 4096, TRUE),
      FolderEntry("Mod.part1-1000-1-0-1500000000.7z", "file", 50, TRUE),
      FolderEntry("Odd-1000-1-0-1550000000.zip", "error", 70, TRUE),
      FolderEntry("Gone-1000-1-0-1600000000.zip", "file", 500, FALSE) }

GameFolderPaths == <<"Skyrim", "Fallout">>

MaxFolderEntries == 2

GameFolders(path) ==
    {[path |-> path, readable |-> readable, entries |-> entries] :
        readable \in BOOLEAN,
        entries \in {x \in SUBSET LibraryEntries : Cardinality(x) <= MaxFolderEntries}}

CollectInit ==
    /\ pc = "collect"
    /\ game_folders \in [1..Len(GameFolderPaths) -> UNION {GameFolders(GameFolderPaths[k]) :
                                                          k \in 1..Len(GameFolderPaths)}]
    /\ \A k \in 1..Len(GameFolderPaths) : game_folders[k].path = GameFolderPaths[k]
    /\ folders_read = 0
    /\ all_files = <<>>
    /\ filename = ""
    /\ parsed_file = None
    /\ ClassifyIdle
    /\ ScanIdle
    /\ DeleteIdle
    /\ FoldersIdle

\* The flat_map closure on the next folder; the folders' results are collected
\* in the folders' order.
ReadFolder ==
    /\ pc = "collect"
    /\ folders_read < Len(game_folders)
    /\ LET game_folder == game_folders[folders_read + 1]
       IN  \E order \in Orderings(valid_entries(game_folder)) :
               all_files' = all_files \o folder_files(game_folder, order)
    /\ folders_read' = folders_read + 1
    /\ UNCHANGED <<pc, filename, parsed_file, game_folders, classify_vars, scan_vars,
                   delete_vars, folders_vars>>

\* Ok(all_files)
FinishCollect ==
    /\ pc = "collect"
    /\ folders_read = Len(game_folders)
    /\ pc' = "collected"
    /\ UNCHANGED <<library_vars, classify_vars, scan_vars, delete_vars, folders_vars>>

CollectNext == ReadFolder \/ FinishCollect

SpecCollect == CollectInit /\ [][CollectNext]_vars

(***************************************************************************)
(* scanner.rs: get_game_folders                                            *)
(***************************************************************************)

BaseDir == "library"

\* What the selected directory holds: mod archives (one of them hidden), a
\* text file, game folders, a directory named as an archive, hidden
\* directories, directories of one and of two leading underscores, and an
\* entry whose type cannot be read.
BaseEntryPool ==
    { FolderEntry("Mod-1000-1-0-1500000000.7z", "file", 100, TRUE),
      FolderEntry(".Mod-1000-1-0-1500000000.zip", "file", 100, TRUE),
      FolderEntry("readme.txt", "file", 10, TRUE),
      FolderEntry("Skyrim", "dir", 4096, TRUE),
      FolderEntry("Fallout 4", "dir", 4096, TRUE),
      FolderEntry("Archive.7z", "dir", 4096, TRUE),
      FolderEntry(".git", "dir", 4096, TRUE),
      FolderEntry("_old", "dir", 4096, TRUE),
      FolderEntry("__MACOSX", "dir", 4096, TRUE),
      FolderEntry("Broken", "error", 0, TRUE) }

MaxBaseEntries == 4

\* Ordering of Path::cmp as -1, 0, 1: component by component, a proper prefix
\* being smaller.
RECURSIVE components_cmp(_, _)
components_cmp(a, b) ==
    IF Len(a) = 0 /\ Len(b) = 0 THEN 0
    ELSE IF Len(a) = 0 THEN -1
    ELSE IF Len(b) = 0 THEN 1
    ELSE IF StrCmp(a[1], b[1]) /= 0 THEN StrCmp(a[1], b[1])
    ELSE components_cmp(Tail(a), Tail(b))

path_cmp(a, b) == components_cmp(Split(a, "/"), Split(b, "/"))

\* folders.sort()
RECURSIVE sort_paths(_)
sort_paths(paths) ==
    IF Len(paths) <= 1 THEN paths
    ELSE LET n == Len(paths)
             sorted == sort_paths(SubSeq(paths, 1, n - 1))
             x == paths[n]
             after == {i \in 1..(n - 1) : path_cmp(sorted[i], x) > 0}
             at == IF after = {} THEN n ELSE CHOOSE i \in after : \A j \in after : i <= j
         IN  SubSeq(sorted, 1, at - 1) \o <<x>> \o SubSeq(sorted, at, n - 1)

\* The test of the first loop: the entry is no directory and its name is that
\* of a mod archive.
is_mod_file_entry(entry) ==
    entry.file_type /= "dir" /\ is_wabbajack_file(entry.name)

\* A second loop that pushes every directory.
is_game_folder_entry_any_dir(entry) == entry.file_type = "dir"

\* The test of the second loop: a directory whose name starts neither with a
\* dot nor with two underscores.
is_game_folder_entry(entry) ==
    /\ entry.file_type = "dir"
    /\ ~StartsWith(entry.name, ".")
    /\ ~StartsWith(entry.name, "__")

FoldersInit ==
    /\ pc = "check_base_dir"
    /\ base_entries \in {x \in SUBSET BaseEntryPool : Cardinality(x) <= MaxBaseEntries}
    /\ unchecked = base_entries
    /\ unlisted = base_entries
    /\ has_mod_files = FALSE
    /\ folders = <<>>
    /\ ClassifyIdle
    /\ ScanIdle
    /\ DeleteIdle
    /\ LibraryIdle

\* fs::read_dir(base_dir) fails, the first time or the second: Err.
ReadDirFails ==
    /\ pc = "check_base_dir"
    /\ unchecked = base_entries
    /\ pc' = "folders_failed"
    /\ UNCHANGED <<folders_vars, classify_vars, scan_vars, delete_vars, library_vars>>

\* One iteration of the first loop; at a mod file the loop is left and the
\* directory itself is pushed.
CheckEntry ==
    /\ pc = "check_base_dir"
    /\ \E entry \in unchecked :
           /\ unchecked' = unchecked \ {entry}
           /\ IF entry.file_type = "error"
              THEN /\ pc' = "folders_failed"
                   /\ UNCHANGED <<has_mod_files, folders>>
              ELSE IF is_mod_file_entry(entry)
              THEN /\ has_mod_files' = TRUE
                   /\ folders' = Append(folders, BaseDir)
                   /\ pc' = "list_subdirs"
              ELSE UNCHANGED <<pc, has_mod_files, folders>>
    /\ UNCHANGED <<base_entries, unlisted, classify_vars, scan_vars, delete_vars,
                   library_vars>>

\* The first loop ends without a mod file.
NoModFiles ==
    /\ pc = "check_base_dir"
    /\ unchecked = {}
    /\ pc' = "list_subdirs"
    /\ UNCHANGED <<folders_vars, classify_vars, scan_vars, delete_vars, library_vars>>

\* One iteration of the second loop.
ListEntry ==
    /\ pc = "list_subdirs"
    /\ \E entry \in unlisted :
           /\ unlisted' = unlisted \ {entry}
           /\ IF entry.file_type = "error"
              THEN /\ pc' = "folders_failed"
                   /\ UNCHANGED folders
              ELSE /\ folders' = IF is_game_folder_entry(entry)
                                 THEN Append(folders, PathJoin(BaseDir, entry.name))
                                 ELSE folders
                   /\ UNCHANGED pc
    /\ UNCHANGED <<base_entries, unchecked, has_mod_files, classify_vars, scan_vars,
                   delete_vars, library_vars>>

\* folders.sort(); Ok(folders)
SortFolders ==
    /\ pc = "list_subdirs"
    /\ unlisted = {}
    /\ folders' = sort_paths(folders)
    /\ pc' = "folders_listed"
    /\ UNCHANGED <<base_entries, unchecked, unlisted, has_mod_files, classify_vars,
                   scan_vars, delete_vars, library_vars>>

FoldersNext ==
    \/ ReadDirFails
    \/ CheckEntry
    \/ NoModFiles
    \/ ListEntry
    \/ SortFolders

SpecFolders == FoldersInit /\ [][FoldersNext]_vars

(***************************************************************************)
(* Properties: orphan classification                                       *)
(***************************************************************************)

Range(seq) == {seq[k] : k \in 1..Len(seq)}

\* The union U of the active manifests' identity sets.
UnionIdOnly == UNION {m.used_mod_keys : m \in Range(active_modlists)}
UnionCompound == UNION {m.used_mod_file_ids : m \in Range(active_modlists)}

OnlyEntryHasOtherFileId(a) ==
    LET entries == {<<i, k>> \in (1..Len(manifests)) \X (1..2) :
                        /\ k <= Len(manifests[i])
                        /\ manifests[i][k].ModID /= None
                        /\ manifests[i][k].ModID[1] > 0
                        /\ to_string(manifests[i][k].ModID[1]) = a.mod_id}
    IN  /\ Cardinality(entries) = 1
        /\ a.file_id /= None
        /\ \A e \in entries :
               /\ manifests[e[1]][e[2]].FileID /= None
               /\ manifests[e[1]][e[2]].FileID[1] > 0
               /\ to_string(manifests[e[1]][e[2]].FileID[1]) /= a.file_id[1]

Returned == dup_result[1].duplicates

ReturnedPaths ==
    UNION {{Returned[k].files[i].full_path : i \in 1..Len(Returned[k].files)} :
              k \in 1..Len(Returned)}

\* The folder's entries that are mod archives, and their candidate groups.
ArchiveEntries ==
    {e \in folder : /\ ~e.is_dir
                    /\ FactsOf(e.name).is_wabbajack_file
                    /\ FactsOf(e.name).parsed /= None}

CandidateKeys == {FactsOf(e.name).mod_key : e \in ArchiveEntries}

CandidateFiles(mod_key) ==
    {ScannedFile(e) : e \in {x \in ArchiveEntries : FactsOf(x.name).mod_key = mod_key}}

PathsOf(files) == {f.full_path : f \in files}

TimestampsOf(files) == {f.timestamp : f \in files}

RECURSIVE SeqSum(_)
SeqSum(numbers) ==
    IF Len(numbers) = 0 THEN 0 ELSE numbers[1] + SeqSum(Tail(numbers))

\* C4: in every returned group the members ascend by timestamp compared as a
\* number (ties by version string), newest_idx is len - 1, and the kept member's
\* timestamp is numerically no smaller than any other member's, also when the
\* timestamps differ in their number of digits.
C4_SortedByNumericTimestamp ==
    pc = "scanned" =>
        \A k \in 1..Len(Returned) :
            LET files == Returned[k].files
                n == Len(files)
            IN  /\ Returned[k].newest_idx = n - 1
                /\ \A i, j \in 1..n :
                       i < j =>
                           \/ NumCmp(files[i].timestamp, files[j].timestamp) < 0
                           \/ /\ NumCmp(files[i].timestamp, files[j].timestamp) = 0
                              /\ StrCmp(files[i].version, files[j].version) <= 0
                /\ \A i \in 1..n : NumCmp(files[n].timestamp, files[i].timestamp) >= 0

DegenerateCandidate(mod_key) ==
    \/ Cardinality(CandidateFiles(mod_key)) < 2
    \/ Cardinality(TimestampsOf(CandidateFiles(mod_key))) = 1

\* C7: no returned group has fewer than 2 members or members of one timestamp
\* only; a candidate group of that kind has no group and no member among the
\* returned ones, so it adds nothing to duplicates, total_files and total_space.
C7_NoDegenerateGroup ==
    pc = "scanned" =>
        /\ \A k \in 1..Len(Returned) :
               /\ Len(Returned[k].files) >= 2
               /\ Cardinality(TimestampsOf(Range(Returned[k].files))) >= 2
        /\ \A mod_key \in CandidateKeys :
               DegenerateCandidate(mod_key) =>
                   /\ \A k \in 1..Len(Returned) : Returned[k].mod_key /= mod_key
                   /\ PathsOf(CandidateFiles(mod_key)) \cap ReturnedPaths = {}
        /\ dup_result[1].total_files =
               SeqSum([k \in 1..Len(Returned) |-> Len(Returned[k].files) - 1])
        /\ dup_result[1].total_space =
               SeqSum([k \in 1..Len(Returned) |-> Returned[k].space_to_free])

\* Two files of one timestamp were the whole candidate group of a mod, while
\* another mod's group was returned.
C7_Witness ==
    /\ pc = "scanned"
    /\ \E mod_key \in CandidateKeys :
           /\ Cardinality(CandidateFiles(mod_key)) >= 2
           /\ Cardinality(TimestampsOf(CandidateFiles(mod_key))) = 1
    /\ Len(Returned) >= 1

PatchAndMainCandidate(mod_key) ==
    /\ \E f \in CandidateFiles(mod_key) : f.is_patch
    /\ \E f \in CandidateFiles(mod_key) : FactsOf(f.file_name).is_full_or_main_file

\* C8: a candidate group with a member that is a patch and a member whose name
\* says main, full or complete is discarded whole: no member of it is in any
\* returned group.
C8_PatchWithMainDiscarded ==
    pc = "scanned" =>
        \A mod_key \in CandidateKeys :
            PatchAndMainCandidate(mod_key) =>
                PathsOf(CandidateFiles(mod_key)) \cap ReturnedPaths = {}

\* A hotfix and a main file of one mod were in the folder, next to another mod
\* whose group was returned.
C8_Witness ==
    /\ pc = "scanned"
    /\ \E mod_key \in CandidateKeys : PatchAndMainCandidate(mod_key)
    /\ Len(Returned) >= 1

MixesPatchAndOther(group) ==
    /\ \E i \in 1..Len(group.files) : group.files[i].is_patch
    /\ \E i \in 1..Len(group.files) : ~group.files[i].is_patch

PlainCandidate(mod_key) ==
    LET files == CandidateFiles(mod_key)
    IN  /\ Cardinality(files) >= 2
        /\ \A f, g \in files :
               f /= g => /\ f.timestamp /= g.timestamp
                         /\ f.version /= g.version
                         /\ ~has_conflicting_descriptors(f.file_name, g.file_name)
        /\ \A f, g \in files : f.size = g.size
        /\ ~PatchAndMainCandidate(mod_key)

\* C10: a returned group's space_to_free is the sum of the sizes of its members
\* other than the one at newest_idx; total_files is the sum of len - 1 and
\* total_space the sum of space_to_free over the returned groups; N files of one
\* package with distinct timestamps, equal sizes, distinct versions and no
\* patch/main or descriptor conflict make exactly one group, newest_idx = N - 1.
C10_SpaceAndTotals ==
    pc = "scanned" =>
        /\ \A k \in 1..Len(Returned) :
               LET files == Returned[k].files
                   kept == Returned[k].newest_idx + 1
               IN  Returned[k].space_to_free =
                       SeqSum([i \in 1..Len(files) |->
                                  IF i = kept THEN 0 ELSE files[i].size])
        /\ dup_result[1].total_files =
               SeqSum([k \in 1..Len(Returned) |-> Len(Returned[k].files)]) - Len(Returned)
        /\ dup_result[1].total_space =
               SeqSum([k \in 1..Len(Returned) |->
                          SeqSum([i \in 1..Len(Returned[k].files) |->
                                     IF i = Returned[k].newest_idx + 1 THEN 0
                                     ELSE Returned[k].files[i].size])])
        /\ \A mod_key \in CandidateKeys :
               PlainCandidate(mod_key) =>
                   /\ Cardinality({k \in 1..Len(Returned) :
                                      Returned[k].mod_key = mod_key}) = 1
                   /\ \A k \in 1..Len(Returned) :
                          Returned[k].mod_key = mod_key =>
                              /\ Len(Returned[k].files) =
                                     Cardinality(CandidateFiles(mod_key))
                              /\ Returned[k].newest_idx = Len(Returned[k].files) - 1

\* Two groups were returned, one of them of files of equal size.
C10_Witness ==
    /\ pc = "scanned"
    /\ Len(Returned) = 2
    /\ dup_result[1].total_space > 0
    /\ \E mod_key \in CandidateKeys : PlainCandidate(mod_key)


(***************************************************************************)
(* Properties of deletion                                                  *)
(***************************************************************************)

\* The paths of the kept members (those at newest_idx or after it) of the
\* supplied groups of at least 2 members.
KeptPaths ==
    UNION {{old_groups[g].files[k].full_path :
               k \in (old_groups[g].newest_idx + 1)..Len(old_groups[g].files)} :
           g \in {x \in 1..Len(old_groups) : Len(old_groups[x].files) >= 2}}

C5_BackupMovesFileAndSidecar ==
    (/\ pc = "deleted"
     /\ operation = "orphans"
     /\ backup_dir /= None
     /\ env_log = <<>>) =>
        /\ \A k \in 1..Len(orphaned_mods) :
               LET file == orphaned_mods[k].file
               IN  /\ ~Exists(disk, file.full_path)
                   /\ Exists(disk, PathJoin(backup_dir[1], file.file_name))
                   /\ Exists(disk0, MetaOf(file.full_path)) =>
                          /\ ~Exists(disk, MetaOf(file.full_path))
                          /\ Exists(disk, PathJoin(backup_dir[1], MetaOf(file.file_name)))
        /\ del_result.deleted_count = Len(orphaned_mods)
        /\ del_result.errors = <<>>

\* Two records, one of a file with a sidecar, were moved without a failure.
C5_Witness ==
    /\ pc = "deleted"
    /\ operation = "orphans"
    /\ backup_dir /= None
    /\ env_log = <<>>
    /\ Len(orphaned_mods) = 2
    /\ \E k \in 1..2 : Exists(disk0, MetaOf(orphaned_mods[k].file.full_path))
    /\ \E k \in 1..2 : ~Exists(disk0, MetaOf(orphaned_mods[k].file.full_path))

\* The failures of targets among the failed operations.
TargetFailures ==
    SelectSeq(env_log, LAMBDA op : op \notin {"create_dir_all", "sidecar"})

EveryTargetOnce ==
    /\ processed = Len(files_to_delete)
    /\ progress = [k \in 1..Len(files_to_delete) |-> <<k, Len(files_to_delete)>>]

Accounted ==
    /\ del_result.deleted_count + Len(del_result.skipped) = Len(files_to_delete)
    /\ Len(del_result.errors) = Len(del_result.skipped)
    /\ Len(del_result.skipped) = Len(TargetFailures)

\* C6 as claimed: in both functions a failed target never ends the batch; at
\* the end every target was processed once, each failed one has one entry in
\* skipped and one in errors, deleted_count + len(skipped) is the number of
\* targets and len(errors) = len(skipped).
C6_EveryTargetAccounted ==
    pc = "deleted" => EveryTargetOnce /\ Accounted

\* C6: the same, unless the backup directory could not be created: then no
\* target is processed and errors has the one entry of that failure.
C6_EveryTargetAccountedUnlessNoBackupDir ==
    pc = "deleted" =>
        IF "create_dir_all" \in Range(env_log)
        THEN /\ processed = 0
             /\ progress = <<>>
             /\ del_result.deleted_count = 0
             /\ del_result.skipped = <<>>
             /\ Len(del_result.errors) = 1
             /\ disk = disk0
        ELSE EveryTargetOnce /\ Accounted

\* A batch of two targets ended whose first target failed and whose second
\* was deleted.
C6_Witness ==
    /\ pc = "deleted"
    /\ Len(files_to_delete) = 2
    /\ Len(del_result.skipped) = 1
    /\ del_result.skipped[1] = files_to_delete[1].file_name
    /\ del_result.deleted_count = 1

(***************************************************************************)
(* Properties of the group key                                             *)
(***************************************************************************)

FromScannedFolder(file) ==
    /\ file.full_path = PathJoin(FolderPath, file.file_name)
    /\ \E e \in folder : ~e.is_dir /\ e.name = file.file_name

\* C11 as claimed: the members of a returned group have the same mod_id, the
\* same normalized mod name and the same part indicator, and all come from the
\* scanned folder.
C11_MembersShareIdNameAndPart ==
    pc = "scanned" =>
        \A k \in 1..Len(Returned) :
            \A f, g \in Range(Returned[k].files) :
                /\ f.mod_id = g.mod_id
                /\ normalize_mod_name(f.mod_name) = normalize_mod_name(g.mod_name)
                /\ part_indicator_of(f) = part_indicator_of(g)
                /\ FromScannedFolder(f)

\* C11: the members of a returned group have the group's key, hence the same
\* mod_id and the same concatenation of normalized mod name and part indicator
\* (the two pieces themselves can differ); files of different mod_id are never
\* in one group, and all members come from the scanned folder.
C11_MembersShareKey ==
    pc = "scanned" =>
        \A k \in 1..Len(Returned) :
            \A f, g \in Range(Returned[k].files) :
                /\ mod_key_of(f) = Returned[k].mod_key
                /\ f.mod_id = g.mod_id
                /\ normalize_mod_name(f.mod_name) \o part_indicator_of(f)
                       = normalize_mod_name(g.mod_name) \o part_indicator_of(g)
                /\ FromScannedFolder(f)

\* A returned group has two members of different part indicators, and the
\* folder has a file of the same mod name under another mod_id.
C11_Witness ==
    /\ pc = "scanned"
    /\ \E k \in 1..Len(Returned) :
           /\ \E f, g \in Range(Returned[k].files) :
                  part_indicator_of(f) /= part_indicator_of(g)
           /\ \E e \in ArchiveEntries :
                  /\ ScannedFile(e).mod_id /= Returned[k].files[1].mod_id
                  /\ ScannedFile(e).mod_name = "X"

(***************************************************************************)
(* Repeated scans                                                          *)
(***************************************************************************)

\* The files in the order of their names, and the keys in their order.
RECURSIVE InNameOrder(_)
InNameOrder(files) ==
    IF files = {} THEN <<>>
    ELSE LET first == CHOOSE f \in files :
                          \A g \in files : StrCmp(f.file_name, g.file_name) <= 0
         IN  <<first>> \o InNameOrder(files \ {first})

RECURSIVE InKeyOrder(_)
InKeyOrder(keys) ==
    IF keys = {} THEN <<>>
    ELSE LET first == CHOOSE k \in keys : \A l \in keys : StrCmp(k, l) <= 0
         IN  <<first>> \o InKeyOrder(keys \ {first})

\* The groups returned by the scan that reads the entries in the order of their
\* names and the groups in the order of their keys.
RECURSIVE GroupsInOrder(_)
GroupsInOrder(keys) ==
    IF Len(keys) = 0 THEN <<>>
    ELSE examine_group([NewGroup(keys[1]) EXCEPT
                           !.files = InNameOrder(CandidateFiles(keys[1]))])
             \o GroupsInOrder(Tail(keys))

ScanInOrder == GroupsInOrder(InKeyOrder(CandidateKeys))

\* C12: every scan of a folder returns what the scan in name order returns: the
\* same groups with the same member order, newest_idx and space_to_free, and
\* the same total_files and total_space, whatever the order in which the
\* directory entries and the hash map's groups come.
C12_RescanGivesSameResult ==
    pc = "scanned" =>
        /\ Range(Returned) = Range(ScanInOrder)
        /\ dup_result[1].total_files = SumOldCounts(ScanInOrder)
        /\ dup_result[1].total_space = SumSpaceToFree(ScanInOrder)

(***************************************************************************)
(* Properties of parse_mod_filename                                        *)
(***************************************************************************)

\* s is a string of decimal digits, at least shortest and at most longest long.
DigitsOfLength(s, shortest, longest) ==
    /\ Len(s) >= shortest
    /\ Len(s) <= longest
    /\ \A i \in 1..Len(s) : Ch(s, i) \in DigitSet

\* The recognized extensions the file name ends with, whatever its case.
ExtensionsOf(name) ==
    LET lower == to_lowercase(name)
    IN  {ext \in Range(ARCHIVE_EXTENSIONS) : EndsWith(lower, ext)}

\* The segments of the file name without its extension (counted from 1).
SegmentsOf(name) ==
    LET ext == CHOOSE e \in ExtensionsOf(name) : TRUE
    IN  Split(SubSeq(name, 1, Len(name) - Len(ext)), "-")

\* The positions that can hold the mod_id: 1 .. N - 2, counted from 0.
ModIdPositions(segments) ==
    {i \in 2..(Len(segments) - 1) : DigitsOfLength(segments[i], 3, 6)}

Accepted(name) ==
    /\ ExtensionsOf(name) /= {}
    /\ LET segments == SegmentsOf(name)
       IN  /\ Len(segments) >= 3
           /\ DigitsOfLength(segments[Len(segments)], 10, Len(name))
           /\ ModIdPositions(segments) /= {}

Positive(optional) == optional /= None /\ optional[1] > 0

\* C14: for every manifest parsed, the id-only set is the set of the decimal
\* strings of the positive ModIDs, the compound set the set of "ModID-FileID"
\* of the archives with both positive, so that an archive without a positive
\* ModID adds to neither, and mod_count is the number of archives.
C14_IdentitySets ==
    \A m \in 1..Len(active_modlists) :
        LET archives == Range(manifests[m])
            info == active_modlists[m]
        IN  /\ info.used_mod_keys =
                   {to_string(a.ModID[1]) : a \in {x \in archives : Positive(x.ModID)}}
            /\ info.used_mod_file_ids =
                   {to_string(a.ModID[1]) \o "-" \o to_string(a.FileID[1]) :
                       a \in {x \in archives : Positive(x.ModID) /\ Positive(x.FileID)}}
            /\ \A a \in archives :
                   ~Positive(a.ModID) /\ Positive(a.FileID) =>
                       \A key \in info.used_mod_file_ids :
                           ~EndsWith(key, "-" \o to_string(a.FileID[1]))
                               \/ \E b \in archives :
                                      /\ Positive(b.ModID)
                                      /\ b.FileID = a.FileID
            /\ info.mod_count = Len(manifests[m])

\* A manifest was parsed that has an archive with a positive FileID and a ModID
\* of zero or less, and one with a positive FileID and no ModID.
C14_Witness ==
    /\ \E m \in 1..Len(active_modlists) :
           \E a \in Range(manifests[m]) :
               a.ModID /= None /\ a.ModID[1] <= 0 /\ Positive(a.FileID)
    /\ \E m \in 1..Len(active_modlists) :
           \E a \in Range(manifests[m]) : a.ModID = None /\ Positive(a.FileID)

(***************************************************************************)
(* Properties of the classification as a partition                         *)
(***************************************************************************)

\* How often x occurs in the sequence.
Count(seq, x) == Cardinality({k \in 1..Len(seq) : seq[k] = x})

SizesOf(files) == [k \in 1..Len(files) |-> files[k].size]

OrphanedFiles == [k \in 1..Len(scan_result[1].orphaned_mods) |->
                     scan_result[1].orphaned_mods[k].file]

\* C15: detect_orphaned_mods partitions its input: every input file is, as often
\* as it occurs, in exactly one of used_mods and orphaned_mods, the two lengths
\* add up to the number of inputs, used_size and orphaned_size are the sums of
\* the sizes of their lists, and together they are the size of the input.
C15_Partition ==
    pc = "classified" =>
        LET used == scan_result[1].used_mods
        IN  /\ Range(used) \cup Range(OrphanedFiles) = Range(mod_files)
            /\ Range(used) \cap Range(OrphanedFiles) = {}
            /\ \A f \in Range(mod_files) :
                   Count(mod_files, f) = Count(used, f) + Count(OrphanedFiles, f)
            /\ Len(used) + Len(OrphanedFiles) = Len(mod_files)
            /\ scan_result[1].used_size = SeqSum(SizesOf(used))
            /\ scan_result[1].orphaned_size = SeqSum(SizesOf(OrphanedFiles))
            /\ scan_result[1].used_size + scan_result[1].orphaned_size
                   = SeqSum(SizesOf(mod_files))

\* A used file and an orphaned file of different sizes were classified.
C15_Witness ==
    /\ pc = "classified"
    /\ Len(scan_result[1].used_mods) = 1
    /\ Len(scan_result[1].orphaned_mods) = 1
    /\ scan_result[1].used_size /= scan_result[1].orphaned_size
    /\ scan_result[1].orphaned_size > 0

(***************************************************************************)
(* Properties of get_all_mod_files                                         *)
(***************************************************************************)

\* The entries of the folders that could be read, with their folder's path, that
\* are no directories, pass is_wabbajack_file and parse as mod files.
AcceptedEntries ==
    UNION {{<<game_folders[k].path, e>> :
               e \in {x \in game_folders[k].entries :
                         /\ x.file_type = "file"
                         /\ is_wabbajack_file(x.name)
                         /\ parse_mod_filename(x.name) /= None}} :
              k \in {j \in 1..Len(game_folders) : game_folders[j].readable}}

\* The ModFile returned for an entry: the name's parts, the path and the size.
ModFileOf(path, e) ==
    [parse_mod_filename(e.name)[1] EXCEPT
        !.full_path = PathJoin(path, e.name), !.size = e.size]

NoFileTwice ==
    \A i, j \in 1..Len(all_files) :
        all_files[i].full_path = all_files[j].full_path => i = j

UnconventionalArchives ==
    UNION {{<<game_folders[k].path, e>> :
               e \in {x \in game_folders[k].entries :
                         /\ x.file_type = "file"
                         /\ x.metadata_ok
                         /\ is_wabbajack_file(x.name)
                         /\ parse_mod_filename(x.name) = None}} :
              k \in {j \in 1..Len(game_folders) : game_folders[j].readable}}

ReturnedFullPaths == {all_files[k].full_path : k \in 1..Len(all_files)}

NoFileWithoutArchiveExtension ==
    \A k \in 1..Len(all_files) : has_valid_archive_extension(all_files[k].file_name)

TotalTargets ==
    IF operation = "orphans" THEN Len(orphaned_mods)
    ELSE SeqSum([g \in 1..Len(old_groups) |-> old_groups[g].newest_idx])

\* The callback was called for the first n targets, in their order.
CalledForFirst(n) == progress = [k \in 1..n |-> <<k, TotalTargets>>]

\* A step that validates or touches the next target.
TargetStep == processed' = processed + 1

\* C18 as claimed, at the end of a batch: the callback was called once per
\* target, with (k, total) for k = 1 .. total in the order of the input.
C18_CalledOncePerTarget ==
    pc = "deleted" => CalledForFirst(TotalTargets)

\* C18: unless the backup directory could not be created (then the callback is
\* never called), the callback is called once per target, with (k, total) for
\* k = 1 .. total in the order of the input, total being the number of targets,
\* before the target is validated or touched, also when the target is then
\* skipped.
C18_CalledBeforeEachTarget ==
    /\ [](/\ Len(files_to_delete) = TotalTargets
          /\ pc = "delete_item" => CalledForFirst(processed + 1)
          /\ pc \in {"delete_start", "delete_loop"} => CalledForFirst(processed)
          /\ pc = "deleted" =>
                 IF "create_dir_all" \in Range(env_log)
                 THEN progress = <<>>
                 ELSE CalledForFirst(TotalTargets))
    /\ [][/\ TargetStep =>
                 /\ progress[processed + 1] = <<processed + 1, TotalTargets>>
                 /\ progress' = progress
          /\ progress' /= progress =>
                 /\ Len(progress') = processed + 1
                 /\ disk' = disk
                 /\ del_result' = del_result
                 /\ processed' = processed]_vars

\* A batch of two old versions ended whose first target was skipped by the
\* safety check: the callback was called for both.
C18_Witness ==
    /\ pc = "deleted"
    /\ operation = "old_versions"
    /\ Len(progress) = 2
    /\ Len(del_result.skipped) >= 1
    /\ del_result.skipped[1] = files_to_delete[1].file_name
    /\ "Safety check failed for" \in Range(env_log)

(***************************************************************************)
(* Properties of the permanent deletion                                    *)
(***************************************************************************)

\* C19: after delete_orphaned_mods without a backup directory in which no
\* operation failed, every record's file is gone from its path and so is its
\* sidecar, no file was created and no other file changed, and space_freed is
\* the sum of the sizes recorded in the records.
C19_PermanentDeletion ==
    (/\ pc = "deleted"
     /\ operation = "orphans"
     /\ backup_dir = None
     /\ env_log = <<>>) =>
        /\ \A k \in 1..Len(orphaned_mods) :
               /\ ~Exists(disk, orphaned_mods[k].file.full_path)
               /\ ~Exists(disk, MetaOf(orphaned_mods[k].file.full_path))
        /\ DOMAIN disk \subseteq DOMAIN disk0
        /\ \A path \in DOMAIN disk : disk[path] = disk0[path]
        /\ del_result.space_freed =
               SeqSum([k \in 1..Len(orphaned_mods) |-> orphaned_mods[k].file.size])
        /\ del_result.deleted_count = Len(orphaned_mods)

\* Two records of different sizes, one of a file with a sidecar, were deleted
\* for good, and a file that was no target is still there.
C19_Witness ==
    /\ pc = "deleted"
    /\ operation = "orphans"
    /\ backup_dir = None
    /\ env_log = <<>>
    /\ Len(orphaned_mods) = 2
    /\ orphaned_mods[1].file.size /= orphaned_mods[2].file.size
    /\ \E k \in 1..2 : Exists(disk0, MetaOf(orphaned_mods[k].file.full_path))
    /\ DOMAIN disk /= {}

(***************************************************************************)
(* Properties of the re-validation                                         *)
(***************************************************************************)

\* The groups of two or more files that the file is a member of.
GroupsOf(file) ==
    {g \in 1..Len(old_groups) :
        /\ Len(old_groups[g].files) >= 2
        /\ PositionOf(old_groups[g], file.full_path) /= None}

\* Another process has removed the newest file of a group of the file.
NewestOfItsGroupRemoved(file) ==
    \E g \in GroupsOf(file) :
        RemovedByOther(NewestPath(old_groups[g])) \in Range(env_log)

\* Every group of the file keeps a later file, and that file is on the disk.
EveryGroupOfItIntact(file) ==
    \A g \in 1..Len(old_groups) :
        PositionOf(old_groups[g], file.full_path) /= None =>
            /\ PositionOf(old_groups[g], file.full_path)[1] < old_groups[g].newest_idx
            /\ Exists(disk, NewestPath(old_groups[g]))

SafetyCheckFailed(file) == <<"Safety check failed for", file.file_name>>

\* C20: during delete_old_versions, once another process has removed the newest
\* file of a group (of two or more files), every member of that group processed
\* afterwards is left in place: the disk is not changed, its name is appended
\* to skipped and a "Safety check failed" error to errors, nothing is counted
\* as deleted, and the loop goes on; a target whose groups are all intact is
\* not refused by the safety check.
C20_RemovedNewestProtectsGroup ==
    [][TargetStep =>
          LET file == files_to_delete[processed + 1]
          IN  /\ NewestOfItsGroupRemoved(file) =>
                     /\ disk' = disk
                     /\ del_result' =
                            [del_result EXCEPT
                                !.skipped = Append(@, file.file_name),
                                !.errors = Append(@, SafetyCheckFailed(file))]
                     /\ pc' = "delete_loop"
                     /\ processed' = processed + 1
              /\ EveryGroupOfItIntact(file) =>
                     \/ del_result'.errors = del_result.errors
                     \/ del_result'.errors[Len(del_result'.errors)]
                            /= SafetyCheckFailed(file)]_vars

\* A batch ended in which another process removed the newest file of a group,
\* a member of that group was then refused by the safety check and is still on
\* the disk, and a file was deleted.
C20_Witness ==
    /\ pc = "deleted"
    /\ del_result.deleted_count >= 1
    /\ \E k \in 1..Len(files_to_delete) :
           /\ NewestOfItsGroupRemoved(files_to_delete[k])
           /\ Exists(disk, files_to_delete[k].full_path)
           /\ SafetyCheckFailed(files_to_delete[k]) \in Range(del_result.errors)
           /\ files_to_delete[k].file_name \in Range(del_result.skipped)

(***************************************************************************)
(* Properties of the backup directory                                      *)
(***************************************************************************)

\* The targets of the batch that left their path: those delete_mod_file moved.
MovedTargets ==
    {files_to_delete[k] : k \in {j \in 1..Len(files_to_delete) :
        /\ Exists(disk0, files_to_delete[j].full_path)
        /\ ~Exists(disk, files_to_delete[j].full_path)}}

\* The file that was at the path is in the backup directory, under its name.
InBackup(file) ==
    /\ Exists(disk, PathJoin(BackupPath, file.file_name))
    /\ disk[PathJoin(BackupPath, file.file_name)] = file.full_path

\* C21: when a batch with a backup directory has ended, every file it counted
\* as deleted is in the backup directory: no file moved there was replaced by
\* a later file of the batch, two targets of one name from different game
\* folders included.
C21_BackedUpFilesSurvive ==
    (pc = "deleted" /\ backup_dir /= None) =>
        /\ del_result.deleted_count = Cardinality(MovedTargets)
        /\ \A file \in MovedTargets : InBackup(file)

(***************************************************************************)
(* Properties of the gate of the suspicious same-version pair              *)
(***************************************************************************)

LargerSize(f, g) == IF f.size >= g.size THEN f.size ELSE g.size
SmallerSize(f, g) == IF f.size >= g.size THEN g.size ELSE f.size

\* The timestamps, as numbers, are less than an hour apart.
WithinTheHour(f, g) ==
    NumCmp(NumAbsDiff(f.timestamp, g.timestamp), to_string(SuspiciousSeconds)) < 0

\* Two uploads of one version that the gate is to refuse.
SuspectReupload(f, g) ==
    /\ f /= g
    /\ f.version = g.version
    /\ \/ LargerSize(f, g) > SizeRatioLimit * SmallerSize(f, g)
       \/ WithinTheHour(f, g)

\* Two uploads of one version that the gate is to let pass.
PlainReupload(f, g) ==
    /\ f /= g
    /\ f.version = g.version
    /\ SmallerSize(f, g) > 0
    /\ LargerSize(f, g) <= SizeRatioLimit * SmallerSize(f, g)
    /\ ~WithinTheHour(f, g)

\* The candidate group has nothing else against it.
OnlyPlainReuploads(mod_key) ==
    LET files == CandidateFiles(mod_key)
    IN  /\ Cardinality(files) >= 2
        /\ Cardinality(TimestampsOf(files)) >= 2
        /\ \A f, g \in files :
               f /= g => /\ f.version = g.version => PlainReupload(f, g)
                         /\ ~has_conflicting_descriptors(f.file_name, g.file_name)
        /\ \A f \in files : ~f.is_patch

\* C22: a candidate group with two members of one version whose sizes are more
\* than ten times apart, or whose timestamps as numbers are less than 3600
\* apart, is discarded whole; two members of one version with sizes at most ten
\* times apart (neither zero) and timestamps 3600 or more apart do not trigger
\* the gate, and a group with nothing else against it is returned.
C22_SuspiciousSameVersionPair ==
    pc = "scanned" =>
        \A mod_key \in CandidateKeys :
            LET files == CandidateFiles(mod_key)
            IN  /\ (\E f, g \in files : SuspectReupload(f, g)) =>
                       PathsOf(files) \cap ReturnedPaths = {}
                /\ \A f, g \in files :
                       PlainReupload(f, g) => ~same_version_is_suspicious(f, g)
                /\ OnlyPlainReuploads(mod_key) =>
                       \E k \in 1..Len(Returned) :
                           /\ Returned[k].mod_key = mod_key
                           /\ PathsOf(Range(Returned[k].files)) = PathsOf(files)

(***************************************************************************)
(* Properties of the gate of the conflicting descriptors                   *)
(***************************************************************************)

\* The descriptors of the vocabulary (as strings) in the lowercased name.
DescriptorSet(name) ==
    {all_descriptors[k] : k \in DescriptorsOf(name)}

\* Exactly one of the two names has descriptors.
Asymmetric(name1, name2) ==
    \/ DescriptorSet(name1) = {} /\ DescriptorSet(name2) /= {}
    \/ DescriptorSet(name1) /= {} /\ DescriptorSet(name2) = {}

\* Both names have descriptors and none in common.
Disjoint(name1, name2) ==
    /\ DescriptorSet(name1) /= {}
    /\ DescriptorSet(name2) /= {}
    /\ \A d \in DescriptorSet(name1) : d \notin DescriptorSet(name2)

\* C23: a candidate group with two members whose descriptor sets are asymmetric
\* or disjoint is discarded whole, whether or not the two have one version;
\* the check of a pair gives the same in either order of the two, and finds
\* a conflict in these two cases only.
C23_ConflictingDescriptors ==
    /\ \A mod_key \in CandidateKeys :
           \A f, g \in CandidateFiles(mod_key) :
               /\ has_conflicting_descriptors(f.file_name, g.file_name)
                      = has_conflicting_descriptors(g.file_name, f.file_name)
               /\ has_conflicting_descriptors(f.file_name, g.file_name)
                      <=> \/ Asymmetric(f.file_name, g.file_name)
                          \/ Disjoint(f.file_name, g.file_name)
    /\ pc = "scanned" =>
           \A mod_key \in CandidateKeys :
               LET files == CandidateFiles(mod_key)
               IN  (\E f, g \in files :
                        \/ Asymmetric(f.file_name, g.file_name)
                        \/ Disjoint(f.file_name, g.file_name)) =>
                       /\ PathsOf(files) \cap ReturnedPaths = {}
                       /\ \A k \in 1..Len(Returned) : Returned[k].mod_key /= mod_key

\* A scan ended on a folder with uploads of one mod, of different versions and
\* timestamps: one with no descriptor in its name beside one with a body type,
\* and two whose descriptors have none in common beside one that shares a
\* descriptor with one of them.
C23_Witness ==
    /\ pc = "scanned"
    /\ \E mod_key \in CandidateKeys :
           /\ \E f, g \in CandidateFiles(mod_key) :
                  /\ f.version /= g.version
                  /\ f.timestamp /= g.timestamp
                  /\ Asymmetric(f.file_name, g.file_name)
           /\ \E f, g, h \in CandidateFiles(mod_key) :
                  /\ f.version /= g.version
                  /\ f.timestamp /= g.timestamp
                  /\ Disjoint(f.file_name, g.file_name)
                  /\ h /= f
                  /\ ~has_conflicting_descriptors(f.file_name, h.file_name)
                  /\ DescriptorSet(h.file_name) /= {}

(***************************************************************************)
(* Properties of the gate of the small patch                               *)
(***************************************************************************)

\* The members the sort can leave last: those no other member sorts after.
LastAfterSort(files) ==
    {f \in files : \A g \in files : compare_files(g, f) <= 0}

\* The member is a patch of less than 10% of the size of another member.
PatchBelowTenth(files, f) ==
    /\ f.is_patch
    /\ \E g \in files \ {f} : 10 * f.size < g.size

\* The candidate group passes the gates before that of the small patch.
PassesEarlierGates(mod_key) ==
    LET files == CandidateFiles(mod_key)
    IN  /\ Cardinality(files) >= 2
        /\ Cardinality(TimestampsOf(files)) >= 2
        /\ \A f, g \in files : f /= g => ~SuspiciousPair(f, g)
        /\ ~PatchAndMainCandidate(mod_key)

\* C24: a candidate group whose newest member (the last after the sort) is a
\* patch of less than 10% of the size of some older member is discarded whole;
\* a group whose newest member is no patch, or is 10% or more of every older
\* member's size, is not discarded by this gate: it is returned if it passes
\* the gates before.
C24_SmallPatchAsNewest ==
    pc = "scanned" =>
        \A mod_key \in CandidateKeys :
            LET files == CandidateFiles(mod_key)
            IN  /\ (\A f \in LastAfterSort(files) : PatchBelowTenth(files, f)) =>
                       /\ PathsOf(files) \cap ReturnedPaths = {}
                       /\ \A k \in 1..Len(Returned) : Returned[k].mod_key /= mod_key
                /\ (/\ PassesEarlierGates(mod_key)
                    /\ \A f \in LastAfterSort(files) : ~PatchBelowTenth(files, f)) =>
                       \E k \in 1..Len(Returned) :
                           /\ Returned[k].mod_key = mod_key
                           /\ PathsOf(Range(Returned[k].files)) = PathsOf(files)
                           /\ Returned[k].files[Len(Returned[k].files)]
                                  \in LastAfterSort(files)

\* A group that passes the earlier gates and whose newest member is a hotfix of
\* less than a tenth of an older member was discarded.
C24_Witness ==
    /\ pc = "scanned"
    /\ \E mod_key \in CandidateKeys :
           /\ PassesEarlierGates(mod_key)
           /\ \A f \in LastAfterSort(CandidateFiles(mod_key)) :
                  PatchBelowTenth(CandidateFiles(mod_key), f)
           /\ PathsOf(CandidateFiles(mod_key)) \cap ReturnedPaths = {}

(***************************************************************************)
(* Properties of the failure to create the backup directory                *)
(***************************************************************************)

BackupFolderFailed == "create_dir_all" \in Range(env_log)

\* C25: once creating the backup directory has failed, the function has
\* returned: no file was moved or deleted, the progress callback was not
\* called, deleted_count and space_freed are 0, skipped is empty and errors
\* holds the one message "Failed to create backup folder".
C25_BackupFolderFailure ==
    BackupFolderFailed =>
        /\ pc = "deleted"
        /\ disk = disk0
        /\ progress = <<>>
        /\ processed = 0
        /\ del_result.deleted_count = 0
        /\ del_result.space_freed = 0
        /\ del_result.skipped = <<>>
        /\ Len(del_result.errors) = 1
        /\ del_result.errors[1] = <<"Failed to create backup folder", backup_dir[1]>>

\* delete_orphaned_mods returned after create_dir_all failed, called with two
\* records whose files are on the disk.
C25_Witness ==
    /\ BackupFolderFailed
    /\ pc = "deleted"
    /\ operation = "orphans"
    /\ Len(orphaned_mods) = 2
    /\ \A k \in 1..Len(orphaned_mods) : Exists(disk, orphaned_mods[k].file.full_path)

(***************************************************************************)
(* Properties of the part indicator                                        *)
(***************************************************************************)

\* The groups of the scan: those being filled and those returned.
GroupsOfScan ==
    {mod_groups[k] : k \in DOMAIN mod_groups} \cup Range(duplicates)

\* The numbers n for which the lowercased name has a textual part form.
TextualParts(name) ==
    LET lower == to_lowercase(name)
    IN  {n \in 1..MaxPartNumber :
            \E form \in {"part " \o to_string(n), "part" \o to_string(n),
                         "(part " \o to_string(n) \o ")",
                         "pt" \o to_string(n), "pt " \o to_string(n)} :
                Contains(lower, form)}

Largest(numbers) == CHOOSE n \in numbers : \A m \in numbers : n >= m

\* The indicator of the name is right by its text: textual only if the name has
\* a textual form, then that of the largest number, and none only if the name
\* has no textual form.
TextualPartResolved(name) ==
    LET indicator == extract_part_indicator(name)
        textual == TextualParts(name)
    IN  /\ indicator = None => textual = {}
        /\ (indicator /= None /\ StartsWith(indicator[1], ":part")) =>
               /\ textual /= {}
               /\ indicator[1] = ":part" \o to_string(Largest(textual))

\* C26: two files of one ModID and one normalized name whose part indicators
\* differ are in no group together; the textual form of the part resolves to
\* the largest number of 1..20 that matches, so that "Part 12" is part 12.
\* (The indicator is a function of the name: it is compared with the text of
\* the names when the scan starts.)
C26_PartsAreNotGroupedTogether ==
    /\ \A group \in GroupsOfScan :
           \A i, j \in 1..Len(group.files) :
               LET f == group.files[i]
                   g == group.files[j]
               IN  (/\ f.mod_id = g.mod_id
                    /\ FactsOf(f.file_name).normalized_name
                           = FactsOf(g.file_name).normalized_name) =>
                       FactsOf(f.file_name).part_indicator
                           = FactsOf(g.file_name).part_indicator
    /\ (pc = "scan" /\ to_read = folder) =>
           \A e \in folder :
               /\ TextualPartResolved(e.name)
               /\ Contains(to_lowercase(e.name), "part 12") =>
                      /\ extract_part_indicator(e.name) = Some(":part12")
                      /\ FactsOf(e.name).part_indicator = ":part12"

\* The scan returned a group of the two uploads of part 12 from a folder that
\* also holds part 1 of the mod.
C26_Witness ==
    /\ pc = "scanned"
    /\ \E e1, e2 \in ArchiveEntries :
           /\ ScannedFile(e1).mod_id = ScannedFile(e2).mod_id
           /\ FactsOf(e1.name).normalized_name = FactsOf(e2.name).normalized_name
           /\ FactsOf(e1.name).part_indicator = ":part1"
           /\ FactsOf(e2.name).part_indicator = ":part12"
    /\ \E k \in 1..Len(Returned) :
           /\ Len(Returned[k].files) = 2
           /\ \A i \in 1..2 :
                  FactsOf(Returned[k].files[i].file_name).part_indicator = ":part12"

(***************************************************************************)
(* Properties of get_game_folders                                          *)
(***************************************************************************)

\* The directory itself, if it directly holds an entry that is no directory
\* and that is_wabbajack_file accepts.
RootIfItHoldsModFiles ==
    IF \E e \in base_entries : e.file_type /= "dir" /\ is_wabbajack_file(e.name)
    THEN {BaseDir} ELSE {}

\* The immediate subdirectories whose names start with none of the prefixes.
SubdirectoriesWithout(prefixes) ==
    {PathJoin(BaseDir, e.name) :
        e \in {x \in base_entries :
                  /\ x.file_type = "dir"
                  /\ \A prefix \in prefixes : ~StartsWith(x.name, prefix)}}

\* The last component of a path.
LastComponent(path) == Split(path, "/")[Len(Split(path, "/"))]

\* The paths ascend: the directory itself before its subdirectories, these by
\* their names.
AscendingByPath(paths) ==
    \A i, j \in 1..Len(paths) :
        i < j => \/ paths[i] = BaseDir /\ paths[j] /= BaseDir
                 \/ /\ paths[i] /= BaseDir
                    /\ paths[j] /= BaseDir
                    /\ StrCmp(LastComponent(paths[i]), LastComponent(paths[j])) < 0

\* The returned folders are exactly the expected ones, each once, ascending.
ReturnsExactly(expected) ==
    /\ Range(folders) = expected
    /\ Len(folders) = Cardinality(expected)
    /\ AscendingByPath(folders)

\* C27 as claimed: get_game_folders returns the directory itself iff it
\* directly holds a mod file, and every immediate subdirectory whose name does
\* not start with a dot, nothing else, ascending by path.
C27_RootAndNonHiddenSubdirectories ==
    pc = "folders_listed" =>
        ReturnsExactly(RootIfItHoldsModFiles \cup SubdirectoriesWithout({"."}))

\* C27: get_game_folders returns the directory itself iff it directly holds a
\* mod file, and every immediate subdirectory whose name starts neither with
\* a dot nor with two underscores, nothing else, ascending by path.
C27_RootAndSubdirectoriesNotDotNorUnderscores ==
    pc = "folders_listed" =>
        ReturnsExactly(RootIfItHoldsModFiles \cup SubdirectoriesWithout({".", "__"}))

\* get_game_folders returned the directory itself and two subdirectories, for a
\* directory that also holds a subdirectory of two leading underscores.
C27_Witness ==
    /\ pc = "folders_listed"
    /\ Len(folders) = 3
    /\ folders[1] = BaseDir
    /\ \E e \in base_entries : e.file_type = "dir" /\ StartsWith(e.name, "__")

(***************************************************************************)
(* Properties of get_all_mod_files over several folders                    *)
(***************************************************************************)

\* The returned files that lie in the folder.
ReturnedFrom(game_folder) ==
    {f \in Range(all_files) : f.full_path = PathJoin(game_folder.path, f.file_name)}

\* The archives collected from the folder when it is read.
CollectedFrom(game_folder) ==
    UNION {Range(collect_entry(game_folder.path, e)) : e \in valid_entries(game_folder)}

\* C28: get_all_mod_files does not fail; a folder that cannot be read
\* contributes no file, and the result is exactly the union of the archives
\* collected from the folders that can be read.
C28_UnreadableFolderContributesNothing ==
    /\ pc \in {"collect", "collected"}
    /\ pc = "collected" =>
           /\ \A k \in 1..Len(game_folders) :
                  ReturnedFrom(game_folders[k]) =
                      IF game_folders[k].readable
                      THEN CollectedFrom(game_folders[k]) ELSE {}
           /\ Range(all_files) =
                  UNION {CollectedFrom(game_folders[k]) :
                            k \in {j \in 1..Len(game_folders) : game_folders[j].readable}}

\* The call returned the archive of the second folder; the first folder, which
\* holds an archive too, could not be read.
C28_Witness ==
    /\ pc = "collected"
    /\ ~game_folders[1].readable
    /\ CollectedFrom(game_folders[1]) /= {}
    /\ game_folders[2].readable
    /\ Len(all_files) >= 1
    /\ Range(all_files) = CollectedFrom(game_folders[2])

(***************************************************************************)
(* Properties of the compound keys                                         *)
(***************************************************************************)

\* The id of a compound key "m-f".
IdOfCompound(key) == Split(key, "-")[1]

\* The file's pair of ModID and FileID is a compound key of a manifest.
PairListed(a) ==
    /\ a.file_id /= None
    /\ (a.mod_id \o "-" \o a.file_id[1]) \in UnionCompound

SecondCallReturned == earlier_runs /= <<>> /\ pc = "deleted"

\* Every target is in skipped, in order, with the error of the missing file.
EveryTargetNoLongerExists ==
    /\ del_result.skipped =
           [k \in 1..Len(files_to_delete) |-> files_to_delete[k].file_name]
    /\ del_result.errors =
           [k \in 1..Len(files_to_delete) |->
               <<"File no longer exists", files_to_delete[k].full_path>>]

\* The second call changes nothing on the disk and deletes nothing.
SecondCallLeavesDisk ==
    earlier_runs /= <<>> =>
        /\ disk = disk0
        /\ del_result.deleted_count = 0
        /\ del_result.space_freed = 0

=============================================================================
